---- MODULE Spec2Model ----
(***************************************************************************)
(* A model of llm-pokemon-showdown: the type-effectiveness calculator      *)
(* (src/type_chart.py), the battle-state scrapers and the decision cycle   *)
(* of ShowdownBot (src/main.py).                                           *)
(*                                                                         *)
(* Multipliers are floats in the source and all of them are powers of two  *)
(* (0, 0.5, 1, 2), so every product is exact.  The model keeps them as     *)
(* fixed-point naturals: a single multiplier is counted in halves          *)
(* (0.5 -> 1, 1.0 -> 2, 2.0 -> 4) and the product of two multipliers in    *)
(* quarters (0.25 -> 1, 0.5 -> 2, 1.0 -> 4, 2.0 -> 8, 4.0 -> 16).          *)
(***************************************************************************)
EXTENDS Integers, Sequences, FiniteSets

VARIABLES
    \* ---- determine_effectiveness: its arguments, locals and result
    attacker_type, defender_type1, defender_type2,
    effectiveness,      \* the local product, in quarters
    descriptor,         \* the returned string
    returned_at,        \* the line of the return statement that was taken
    tpc,                \* "call" before the call, "returned" after it
    \* ---- get_opponent_pokemon, get_player_team, get_controls
    spc,                        \* the statement the scraper is at
    n_elements,                 \* len() of the icons / buttons found
    idx,                        \* position of the for loop in them
    cur,                        \* the attributes read from the current element
    roster,                     \* opponent_team_roster / player_pokemon_roster
    currently_active_pokemon,
    pokemon_tooltip_mapping,
    opponent_result,            \* what get_opponent_pokemon returned
    current_player_team,        \* what get_player_team returned
    battle_state,               \* what get_controls returned
    \* ---- start_battling, start_battle and the decision cycle
    pc,                         \* the statement the bot is at
    battle_over,                \* what is_battle_over last saw
    tera_checkbox,              \* input[name='terastallize'] of the page
    current_battle_controls,    \* the local of start_battle
    ai_decision,                \* the local of start_battle / make_move
    error,                      \* the exception in flight, or "none"
    invoked,                    \* the controls clicked in this decision cycle
    last_reasoning,
    current_iteration_number,
    reasoning_files,            \* what reasoning/n.txt holds: for each decision
                                \* appended, the file n and the battle it was of
    battles_joined,             \* the battles found so far, over all the runs
    reasoning_battle,           \* the battle last_reasoning was set in, or 0
    \* ---- generate_battle_moves and the reasoning file of one battle
    file_text,                  \* the text of reasoning/n.txt
    saved,                      \* the decisions appended to it, in order
    generated,                  \* what generate_battle_moves last returned
    \* ---- parse_pokemon_tooltip on one fragment
    sections,                   \* the sections the fragment is made of
    tooltip_html_content,
    is_opponent,                \* the argument is_opponent_pokemon
    tooltip_result,             \* the dict returned
    tip_pc,
    \* ---- get_battle_log on one log
    battle_log_html,            \* the children of div.inner.message-log
    parsed_battle_log,          \* the list returned
    log_pc

typeVars == <<attacker_type, defender_type1, defender_type2, effectiveness,
              descriptor, returned_at, tpc>>

scrapeVars == <<spc, n_elements, idx, cur, roster, currently_active_pokemon,
                pokemon_tooltip_mapping, opponent_result, current_player_team,
                battle_state>>

battleVars == <<pc, battle_over, tera_checkbox, current_battle_controls,
                ai_decision, error, invoked, last_reasoning,
                current_iteration_number, reasoning_files, battles_joined, reasoning_battle>>

logVars == <<file_text, saved, generated>>

tipVars == <<sections, tooltip_html_content, is_opponent, tooltip_result, tip_pc>>

histVars == <<battle_log_html, parsed_battle_log, log_pc>>

vars == <<typeVars, scrapeVars, battleVars, logVars, tipVars, histVars>>

-----------------------------------------------------------------------------
(* src/type_chart.py *)

NotSpecified == "Not Specified"

\* TYPES, in the order of the list
TYPES == <<"Normal", "Fighting", "Flying", "Poison", "Ground", "Rock", "Bug",
           "Ghost", "Steel", "Fire", "Water", "Grass", "Electric", "Psychic",
           "Ice", "Dragon", "Dark", "Fairy", "Stellar">>

\* The Literal of Pokemon.type1/type2 and Move.type: TYPES and the sentinel
PokemonType == {TYPES[i] : i \in 1..Len(TYPES)} \cup {NotSpecified}

\* the multipliers type_chart returns, in halves
MULT_0_0 == 0
MULT_0_5 == 1
MULT_1_0 == 2
MULT_2_0 == 4

\* One operator per `case` of the outer match: the inner match of that
\* attacking type, its `case _` last.

chart_Normal(defend_type) ==
    CASE defend_type \in {"Ghost"} -> MULT_0_0
      [] defend_type \in {"Steel", "Rock"} -> MULT_0_5
      [] OTHER -> MULT_1_0

\* the Fire row without its own type among the resisting types
chart_Fire_no_self(defend_type) ==
    CASE defend_type \in {"Water", "Rock", "Dragon"} -> MULT_0_5
      [] defend_type \in {"Steel", "Grass", "Ice", "Bug"} -> MULT_2_0
      [] OTHER -> MULT_1_0

chart_Fire(defend_type) ==
    CASE defend_type \in {"Fire", "Water", "Rock", "Dragon"} -> MULT_0_5
      [] defend_type \in {"Steel", "Grass", "Ice", "Bug"} -> MULT_2_0
      [] OTHER -> MULT_1_0

\* the Water row with its super-effective entries entered as 4.0
chart_Water_four(defend_type) ==
    CASE defend_type \in {"Water", "Grass", "Dragon"} -> MULT_0_5
      [] defend_type \in {"Fire", "Rock", "Ground"} -> 2 * MULT_2_0
      [] OTHER -> MULT_1_0

\* the Water row without Rock among the weak types
chart_Water_no_rock(defend_type) ==
    CASE defend_type \in {"Water", "Grass", "Dragon"} -> MULT_0_5
      [] defend_type \in {"Fire", "Ground"} -> MULT_2_0
      [] OTHER -> MULT_1_0

chart_Water(defend_type) ==
    CASE defend_type \in {"Water", "Grass", "Dragon"} -> MULT_0_5
      [] defend_type \in {"Fire", "Rock", "Ground"} -> MULT_2_0
      [] OTHER -> MULT_1_0

chart_Grass(defend_type) ==
    CASE defend_type \in {"Fire", "Grass", "Dragon", "Poison", "Flying", "Bug", "Steel"} -> MULT_0_5
      [] defend_type \in {"Water", "Ground", "Rock"} -> MULT_2_0
      [] OTHER -> MULT_1_0

chart_Electric(defend_type) ==
    CASE defend_type \in {"Water", "Flying"} -> MULT_2_0
      [] defend_type \in {"Grass", "Dragon", "Electric"} -> MULT_0_5
      [] defend_type \in {"Ground"} -> MULT_0_0
      [] OTHER -> MULT_1_0

chart_Ice(defend_type) ==
    CASE defend_type \in {"Fire", "Water", "Ice", "Steel"} -> MULT_0_5
      [] defend_type \in {"Grass", "Ground", "Flying", "Dragon"} -> MULT_2_0
      [] OTHER -> MULT_1_0

chart_Fighting(defend_type) ==
    CASE defend_type \in {"Normal", "Rock", "Steel", "Dark", "Ice"} -> MULT_2_0
      [] defend_type \in {"Flying", "Poison", "Psychic", "Bug", "Fairy"} -> MULT_0_5
      [] defend_type \in {"Ghost"} -> MULT_0_0
      [] OTHER -> MULT_1_0

chart_Poison(defend_type) ==
    CASE defend_type \in {"Grass", "Fairy"} -> MULT_2_0
      [] defend_type \in {"Poison", "Ground", "Rock", "Ghost"} -> MULT_0_5
      [] defend_type \in {"Steel"} -> MULT_0_0
      [] OTHER -> MULT_1_0

chart_Ground(defend_type) ==
    CASE defend_type \in {"Grass", "Bug"} -> MULT_0_5
      [] defend_type \in {"Fire", "Electric", "Poison", "Rock", "Steel"} -> MULT_2_0
      [] defend_type \in {"Flying"} -> MULT_0_0
      [] OTHER -> MULT_1_0

chart_Flying(defend_type) ==
    CASE defend_type \in {"Grass", "Fighting", "Bug"} -> MULT_2_0
      [] defend_type \in {"Rock", "Steel", "Electric"} -> MULT_0_5
      [] OTHER -> MULT_1_0

chart_Psychic(defend_type) ==
    CASE defend_type \in {"Fighting", "Poison"} -> MULT_2_0
      [] defend_type \in {"Psychic", "Steel"} -> MULT_0_5
      [] defend_type \in {"Dark"} -> MULT_0_0
      [] OTHER -> MULT_1_0

chart_Bug(defend_type) ==
    CASE defend_type \in {"Grass", "Psychic", "Dark"} -> MULT_2_0
      [] defend_type \in {"Fire", "Fighting", "Poison", "Flying", "Ghost", "Steel", "Fairy"} -> MULT_0_5
      [] OTHER -> MULT_1_0

chart_Ghost(defend_type) ==
    CASE defend_type \in {"Ghost", "Psychic"} -> MULT_2_0
      [] defend_type \in {"Dark"} -> MULT_0_5
      [] defend_type \in {"Normal"} -> MULT_0_0
      [] OTHER -> MULT_1_0

chart_Dragon(defend_type) ==
    CASE defend_type \in {"Dragon"} -> MULT_2_0
      [] defend_type \in {"Steel"} -> MULT_0_5
      [] defend_type \in {"Fairy"} -> MULT_0_0
      [] OTHER -> MULT_1_0

chart_Dark(defend_type) ==
    CASE defend_type \in {"Ghost", "Psychic"} -> MULT_2_0
      [] defend_type \in {"Fighting", "Dark", "Fairy"} -> MULT_0_5
      [] OTHER -> MULT_1_0

chart_Steel(defend_type) ==
    CASE defend_type \in {"Ice", "Rock", "Fairy"} -> MULT_2_0
      [] defend_type \in {"Steel", "Fire", "Water", "Electric"} -> MULT_0_5
      [] OTHER -> MULT_1_0

chart_Fairy(defend_type) ==
    CASE defend_type \in {"Fighting", "Dragon", "Dark"} -> MULT_2_0
      [] defend_type \in {"Poison", "Steel"} -> MULT_0_5
      [] OTHER -> MULT_1_0

\* the outer `case _` returning 0.0: an unknown attacking type does nothing
chart_unlisted_zero(defend_type) == MULT_0_0

\* the outer `case _`: an attacking type with no row (Rock, Stellar, the
\* sentinel)
chart_unlisted(defend_type) == MULT_1_0

type_chart(attack_type, defend_type) ==
    CASE attack_type = "Normal"   -> chart_Normal(defend_type)
      [] attack_type = "Fire"     -> chart_Fire(defend_type)
      [] attack_type = "Water"    -> chart_Water(defend_type)
      [] attack_type = "Grass"    -> chart_Grass(defend_type)
      [] attack_type = "Electric" -> chart_Electric(defend_type)
      [] attack_type = "Ice"      -> chart_Ice(defend_type)
      [] attack_type = "Fighting" -> chart_Fighting(defend_type)
      [] attack_type = "Poison"   -> chart_Poison(defend_type)
      [] attack_type = "Ground"   -> chart_Ground(defend_type)
      [] attack_type = "Flying"   -> chart_Flying(defend_type)
      [] attack_type = "Psychic"  -> chart_Psychic(defend_type)
      [] attack_type = "Bug"      -> chart_Bug(defend_type)
      [] attack_type = "Ghost"    -> chart_Ghost(defend_type)
      [] attack_type = "Dragon"   -> chart_Dragon(defend_type)
      [] attack_type = "Dark"     -> chart_Dark(defend_type)
      [] attack_type = "Steel"    -> chart_Steel(defend_type)
      [] attack_type = "Fairy"    -> chart_Fairy(defend_type)
      [] OTHER                    -> chart_unlisted(defend_type)

\* the six descriptors determine_effectiveness returns
NO_EFFECT == "Will do nothing"
QUARTER   == "Very Resisted, will do quarter damage"
HALF      == "Resisted, will do half damage"
NORMAL    == "Will do normal amount of damage"
DOUBLE    == "Will be super effective (2x damage)"
QUADRUPLE == "Will be very very effective (4x damage)"

\* what a Python function returns when it falls off its end
None == "None"

\* the product of lines 24-26, in quarters: 1.0 * (a/2) * (b/2) = a*b/4
product(attacker, defender1, defender2) ==
    type_chart(attacker, defender1) * type_chart(attacker, defender2)

\* the if/elif chain of lines 28-41 on a product in quarters: the descriptor
\* and the line of the return statement taken
classify_no_quarter(e) ==
    IF e = 0 THEN [ret |-> NO_EFFECT, line |-> 29]
    ELSE IF e = 2 THEN [ret |-> HALF, line |-> 33]
    ELSE IF e = 4 THEN [ret |-> NORMAL, line |-> 35]
    ELSE IF e = 8 THEN [ret |-> DOUBLE, line |-> 37]
    ELSE IF e = 16 THEN [ret |-> QUADRUPLE, line |-> 39]
    ELSE [ret |-> None, line |-> 40]

classify(e) ==
    IF e = 0 THEN [ret |-> NO_EFFECT, line |-> 29]
    ELSE IF e = 1 THEN [ret |-> QUARTER, line |-> 31]
    ELSE IF e = 2 THEN [ret |-> HALF, line |-> 33]
    ELSE IF e = 4 THEN [ret |-> NORMAL, line |-> 35]
    ELSE IF e = 8 THEN [ret |-> DOUBLE, line |-> 37]
    ELSE IF e = 16 THEN [ret |-> QUADRUPLE, line |-> 39]
    ELSE [ret |-> NORMAL, line |-> 41]

FALLBACK_LINE == 41

TypeInit ==
    /\ attacker_type \in PokemonType
    /\ defender_type1 \in PokemonType
    /\ defender_type2 \in PokemonType
    /\ effectiveness = 4
    /\ descriptor = None
    /\ returned_at = 0
    /\ tpc = "call"

\* determine_effectiveness(attacker_type, defender_type1, defender_type2)
determine_effectiveness ==
    /\ tpc = "call"
    /\ effectiveness' = product(attacker_type, defender_type1, defender_type2)
    /\ descriptor' = classify(effectiveness').ret
    /\ returned_at' = classify(effectiveness').line
    /\ tpc' = "returned"
    /\ UNCHANGED <<attacker_type, defender_type1, defender_type2>>

-----------------------------------------------------------------------------
(* src/main.py: the tooltip parser and the scrapers of the two teams *)

\* Python's None where the other values are records
NoneObj == [none |-> TRUE]

\* ---- what the page supplies

\* the most elements (icons, switch buttons) one scrape finds
MaxTeam == 2
\* the most <p> elements of one tooltip
MaxParas == 2

Names == {"Pikachu", "Gengar"}

\* re.search found nothing; a match m is kept as <<float(m.group(1))>>
NoMatch == <<>>
NoH2 == "no h2"

\* A <p> of a tooltip: the text of its <small> label, whether its text holds
\* "(fainted)", and the number the regex (\d+\.?\d*)% finds in it, if any.
Paragraphs == [small : {"HP:", "Ability:"}, marker : BOOLEAN, pct : {NoMatch, <<45>>}]

SeqsUpTo(S, n) == UNION {[1..k -> S] : k \in 0..n}

\* A tooltip: the cleaned text of its <h2> title, if any, and its paragraphs
\* in document order.
Tooltips == [h2 : {NoH2} \cup Names, paras : SeqsUpTo(Paragraphs, MaxParas)]

\* The value attribute of a switch button: "name" or "name,status"
ButtonValues == [name : Names, status : {"", "active", "fainted"}]

\* The aria-label of an opponent icon: absent, empty, or a name followed by
\* any of " (active)" and " (fainted)"
NoLabel == [label |-> "none"]
EmptyLabel == [label |-> "empty"]
AriaLabels == {NoLabel, EmptyLabel}
                \cup [name : Names, active : BOOLEAN, ends_fainted : BOOLEAN]

\* ---- parse_pokemon_tooltip, the HP block

\* lines 252-275: the first paragraph whose <small> holds "HP:" decides
\* the HP block with line 261 left out: the percentage survives the marker
RECURSIVE hp_and_fainted_keeps_percentage(_)
hp_and_fainted_keeps_percentage(paras) ==
    IF paras = <<>> THEN [hp |-> 100, fainted |-> FALSE]
    ELSE LET p == Head(paras) IN
         IF p.small = "HP:"
         THEN [hp |-> IF p.pct # NoMatch THEN p.pct[1] ELSE 100,
               fainted |-> p.marker]
         ELSE hp_and_fainted_keeps_percentage(Tail(paras))

RECURSIVE hp_and_fainted(_)
hp_and_fainted(paras) ==
    IF paras = <<>> THEN [hp |-> 100, fainted |-> FALSE]
    ELSE LET p == Head(paras) IN
         IF p.small = "HP:"
         THEN IF p.marker THEN [hp |-> 0, fainted |-> TRUE]
              ELSE IF p.pct # NoMatch THEN [hp |-> p.pct[1], fainted |-> FALSE]
              ELSE [hp |-> 100, fainted |-> FALSE]
         ELSE hp_and_fainted(Tail(paras))

\* ---- parse_pokemon_tooltip, the other blocks.  A text is the sequence of
\* its pieces; a paragraph is a record of what the parser reads of a <p>:
\* small (the text of its first <small>), marker and pct (HP paragraphs),
\* status (the text of its span.status), after (the text after the first
\* <small>), lines (the lines of a p.tooltip-section).  A field that is not
\* there is an element that is not in the fragment.
NoSmall == "no small"

after_of(p) == IF "after" \in DOMAIN p THEN p.after ELSE <<>>

RECURSIVE flatten(_)
flatten(seqs) == IF seqs = <<>> THEN <<>> ELSE Head(seqs) \o flatten(Tail(seqs))

\* paragraph_tag.get_text()
text_of(p) ==
    (IF p.small = NoSmall THEN <<>> ELSE <<p.small>>)
        \o after_of(p)
        \o (IF "lines" \in DOMAIN p THEN flatten(p.lines) ELSE <<>>)

\* the first index where a test passed (passes[i] is its outcome on the i-th
\* element), or 0
FirstIdx(passes) ==
    IF \E i \in 1..Len(passes) : passes[i]
    THEN CHOOSE i \in 1..Len(passes) : passes[i] /\ \A j \in 1..(i - 1) : ~ passes[j]
    ELSE 0

\* the last index where a test passed, or 0
LastIdx(passes) ==
    IF \E i \in 1..Len(passes) : passes[i]
    THEN CHOOSE i \in 1..Len(passes) :
             passes[i] /\ \A j \in (i + 1)..Len(passes) : ~ passes[j]
    ELSE 0

IsSpace(piece) == piece = " "
NotSpace(piece) == piece # " "

\* str.strip()
strip(text) ==
    LET first == FirstIdx([k \in 1..Len(text) |-> NotSpace(text[k])])
        last == LastIdx([k \in 1..Len(text) |-> NotSpace(text[k])])
    IN  IF first = 0 THEN <<>> ELSE SubSeq(text, first, last)

IsComma(piece) == piece = ","

\* str.split(',')
RECURSIVE split_commas(_)
split_commas(text) ==
    LET i == FirstIdx([k \in 1..Len(text) |-> IsComma(text[k])])
    IN  IF i = 0 THEN <<text>>
        ELSE <<SubSeq(text, 1, i - 1)>> \o split_commas(SubSeq(text, i + 1, Len(text)))

NonEmpty(text) == text # <<>>
HasAlt(alt) == alt # ""

\* lines 223-245: type1, type2 and tera_type.  typeicons holds the
\* .textaligned-typeicons containers in document order, each the alt texts of
\* its <img>s; tera is the index of the container that follows the
\* "Tera Type:" text (0: none follows).
typeicons_of(tooltip) ==
    IF "typeicons" \in DOMAIN tooltip THEN tooltip.typeicons ELSE <<>>

pokemon_types(tooltip) ==
    IF typeicons_of(tooltip) = <<>> THEN <<>>
    ELSE SelectSeq(typeicons_of(tooltip)[1], HasAlt)

tera_type_of(tooltip) ==
    IF /\ "tera" \in DOMAIN tooltip
       /\ tooltip.tera \in 1..Len(typeicons_of(tooltip))
       /\ typeicons_of(tooltip)[tooltip.tera] # <<>>
       /\ typeicons_of(tooltip)[tooltip.tera][1] # ""
    THEN typeicons_of(tooltip)[tooltip.tera][1]
    ELSE NotSpecified

\* the map with "TOX" given a name of its own
status_abbreviation_map_toxic ==
    [code \in {"BRN", "PSN", "TOX", "PAR", "SLP", "FRZ"} |->
        CASE code = "BRN" -> "Burn"
          [] code = "PSN" -> "Poison"
          [] code = "TOX" -> "Toxic"
          [] code = "PAR" -> "Paralysis"
          [] code = "SLP" -> "Sleep"
          [] code = "FRZ" -> "Freeze"]

\* lines 214-221
status_abbreviation_map ==
    [code \in {"BRN", "PSN", "TOX", "PAR", "SLP", "FRZ"} |->
        CASE code = "BRN" -> "Burn"
          [] code = "PSN" -> "Poison"
          [] code = "TOX" -> "Poison"
          [] code = "PAR" -> "Paralysis"
          [] code = "SLP" -> "Sleep"
          [] code = "FRZ" -> "Freeze"]

NoStatus == "no span.status"

\* the texts a span.status may hold here
StatusTexts == {"BRN", "PSN", "TOX", "PAR", "SLP", "FRZ", " tox ", "FNT", ""}

\* line 271: .strip().upper(), over StatusTexts
strip_upper(status_text) ==
    IF status_text = " tox " THEN "TOX" ELSE status_text

IsHPParagraph(p) == p.small # NoSmall /\ p.small = "HP:"

\* lines 250 and 268-273: the status, read in the first HP paragraph only
status_condition(paras) ==
    LET i == FirstIdx([k \in 1..Len(paras) |-> IsHPParagraph(paras[k])])
    IN  IF i = 0 \/ "status" \notin DOMAIN paras[i] THEN "none"
        ELSE LET showdown_status_code == strip_upper(paras[i].status)
             IN  IF showdown_status_code \in DOMAIN status_abbreviation_map
                 THEN status_abbreviation_map[showdown_status_code]
                 ELSE "none"

\* line 283: "ability:" or "possible abilities:" is in the lowered label
IsAbilityParagraph(p) ==
    p.small \in {"Ability:", "Possible abilities:"}

\* a regex that finds no label at all
MatchesNoLabel(piece) == FALSE

\* the pieces in which the regex abilities?: finds a match (IGNORECASE):
\* "abilities:" and "abilitie:" match, "ability:" does not
MatchesAbilitiesRe(piece) == piece \in {"Possible abilities:", "Abilities:"}

\* re.sub(r'^(.*<label>)', '', text): all up to the last match goes
\* (matches[i]: the label matches at the i-th piece)
remove_through_last(text, matches) ==
    SubSeq(text, LastIdx(matches) + 1, Len(text))

\* get_text(separator=" "): a space between the <small> and what follows
text_separated(p) ==
    IF p.small = NoSmall THEN after_of(p) ELSE <<p.small, " ">> \o after_of(p)

\* lines 284-287
abilities_of(p) ==
    LET stripped == strip(text_separated(p))
        ability_text ==
            strip(remove_through_last(stripped,
                [k \in 1..Len(stripped) |-> MatchesAbilitiesRe(stripped[k])]))
        fragments == split_commas(ability_text)
    IN  SelectSeq([i \in 1..Len(fragments) |-> strip(fragments[i])], NonEmpty)

\* lines 278-288
pokemon_abilities(paras) ==
    LET i == FirstIdx([k \in 1..Len(paras) |-> IsAbilityParagraph(paras[k])])
    IN  IF i = 0 THEN <<>> ELSE abilities_of(paras[i])

\* the pieces that are numbers, and int() of them
NumberPieces == {"186", "251", "305", "394"}
int(piece) ==
    CASE piece = "186" -> 186 [] piece = "251" -> 251
      [] piece = "305" -> 305 [] piece = "394" -> 394

IsNumber(piece) == piece \in NumberPieces

\* the pieces that hold "Spe"
ContainsSpe(piece) == piece \in {"Spe", "Speed Boost"}

SmallContainsSpe(p) == p.small # NoSmall /\ ContainsSpe(p.small)
TextContainsSpe(p) == \E i \in 1..Len(text_of(p)) : ContainsSpe(text_of(p)[i])

\* line 298: (\d+)\s*to\s*(\d+), ignoring the spaces
speed_range_match(text) ==
    LET t == SelectSeq(text, NotSpace)
        hits == {i \in 1..(Len(t) - 2) :
                    IsNumber(t[i]) /\ t[i + 1] = "to" /\ IsNumber(t[i + 2])}
    IN  IF hits = {} THEN NoMatch
        ELSE LET i == CHOOSE i \in hits : \A j \in hits : i <= j
             IN  <<int(t[i]), int(t[i + 2])>>

\* line 307: Spe\s*[^0-9]*(\d+): the first number after the first "Spe"
speed_exact_match(text) ==
    LET i == FirstIdx([k \in 1..Len(text) |-> ContainsSpe(text[k])])
        rest == SubSeq(text, i + 1, Len(text))
        j == FirstIdx([k \in 1..Len(rest) |-> IsNumber(rest[k])])
    IN  IF i = 0 \/ j = 0 THEN NoMatch ELSE <<int(rest[j])>>

\* lines 291-312: <<speed_min, speed_max>>
speed_stats(paras, is_opponent_pokemon) ==
    IF is_opponent_pokemon
    THEN LET i == FirstIdx([k \in 1..Len(paras) |-> SmallContainsSpe(paras[k])])
             m == IF i = 0 THEN NoMatch ELSE speed_range_match(text_of(paras[i]))
         IN  IF m = NoMatch THEN <<0, 0>> ELSE m
    ELSE LET i == FirstIdx([k \in 1..Len(paras) |-> TextContainsSpe(paras[k])])
             m == IF i = 0 THEN NoMatch ELSE speed_exact_match(text_of(paras[i]))
         IN  IF m = NoMatch THEN <<0, 0>> ELSE <<m[1], m[1]>>

\* "*" stands for the bullet character of the move lines
IsBullet(piece) == piece = "*"
IsParenthetical(piece) == piece \in {"(15/16)", "(revealed)"}

\* lines 320-323 for one line: a line that starts with the bullet gives the
\* move name, the bullet and everything from the first ( to the last ) cut
move_of_line(line) ==
    LET stripped == strip(line)
        move_text == strip(Tail(stripped))
        open == FirstIdx([k \in 1..Len(move_text) |-> IsParenthetical(move_text[k])])
        close == LastIdx([k \in 1..Len(move_text) |-> IsParenthetical(move_text[k])])
    IN  IF open = 0 THEN move_text
        ELSE strip(SubSeq(move_text, 1, open - 1)
                     \o SubSeq(move_text, close + 1, Len(move_text)))

StartsWithBullet(line) == strip(line) # <<>> /\ IsBullet(strip(line)[1])

moves_of_section(p) ==
    IF "lines" \notin DOMAIN p THEN <<>>
    ELSE LET bulleted == SelectSeq(p.lines, StartsWithBullet)
         IN  [i \in 1..Len(bulleted) |-> move_of_line(bulleted[i])]

\* lines 315-324
RECURSIVE revealed_moves(_)
revealed_moves(paras) ==
    IF paras = <<>> THEN <<>>
    ELSE moves_of_section(Head(paras)) \o revealed_moves(Tail(paras))

IsItemParagraph(p) == p.small # NoSmall /\ p.small = "Item:"
MatchesItemRe(piece) == piece = "Item:"

\* line 327
item_default(is_opponent_pokemon) ==
    IF is_opponent_pokemon THEN <<"Unknown">> ELSE <<"No Item">>

\* the item loop without its break: the last "Item:" paragraph decides
pokemon_item_last_wins(paras, is_opponent_pokemon) ==
    LET i == LastIdx([k \in 1..Len(paras) |-> IsItemParagraph(paras[k])])
        stripped == IF i = 0 THEN <<>> ELSE strip(text_separated(paras[i]))
        item_text ==
            strip(remove_through_last(stripped,
                [k \in 1..Len(stripped) |-> MatchesItemRe(stripped[k])]))
    IN  IF item_text = <<>> THEN item_default(is_opponent_pokemon) ELSE item_text

\* lines 327-336
pokemon_item(paras, is_opponent_pokemon) ==
    LET i == FirstIdx([k \in 1..Len(paras) |-> IsItemParagraph(paras[k])])
        stripped == IF i = 0 THEN <<>> ELSE strip(text_separated(paras[i]))
        item_text ==
            strip(remove_through_last(stripped,
                [k \in 1..Len(stripped) |-> MatchesItemRe(stripped[k])]))
    IN  IF item_text = <<>> THEN item_default(is_opponent_pokemon) ELSE item_text

\* lines 196-351
parse_pokemon_tooltip(tooltip, is_opponent_pokemon) ==
    LET types == pokemon_types(tooltip)
        health == hp_and_fainted(tooltip.paras)
        speed == speed_stats(tooltip.paras, is_opponent_pokemon)
    IN  [type1 |-> IF Len(types) >= 1 THEN types[1] ELSE NotSpecified,
         type2 |-> IF Len(types) >= 2 THEN types[2] ELSE NotSpecified,
         tera_type |-> tera_type_of(tooltip),
         hp |-> health.hp,
         fainted |-> health.fainted,
         status |-> status_condition(tooltip.paras),
         ability |-> pokemon_abilities(tooltip.paras),
         speed_min |-> speed[1],
         speed_max |-> speed[2],
         moves |-> revealed_moves(tooltip.paras),
         item |-> pokemon_item(tooltip.paras, is_opponent_pokemon)]

\* Pokemon(name=..., hp=..., fainted=...)
Pokemon(name, hp, fainted) == [name |-> name, hp |-> hp, fainted |-> fainted]

\* Team(active_pokemon=..., pokemon=..., pokemon_dict=...)
Team(active_pokemon, pokemon, pokemon_dict) ==
    [active_pokemon |-> active_pokemon, pokemon |-> pokemon,
     pokemon_dict |-> pokemon_dict]

EmptyDict == [k \in {} |-> NoneObj]

\* d[k] = v of a Python dict
DictSet(d, k, v) == [x \in DOMAIN d \cup {k} |-> IF x = k THEN v ELSE d[x]]

ScrapeIdle ==
    /\ spc = "idle"
    /\ n_elements = 0
    /\ idx = 0
    /\ cur = NoneObj
    /\ roster = <<>>
    /\ currently_active_pokemon = NoneObj
    /\ pokemon_tooltip_mapping = EmptyDict
    /\ opponent_result = NoneObj
    /\ current_player_team = NoneObj
    /\ battle_state = NoneObj

\* the locals of a scraper, as they are when it is entered or has returned
LocalsReset ==
    /\ n_elements' = 0
    /\ idx' = 0
    /\ cur' = NoneObj
    /\ roster' = <<>>
    /\ currently_active_pokemon' = NoneObj
    /\ pokemon_tooltip_mapping' = EmptyDict

\* ---- get_opponent_pokemon

\* lines 364-376: the icons are found and the loop is entered
opponent_find_icons ==
    /\ spc = "idle"
    /\ \E n \in 0..MaxTeam : n_elements' = n
    /\ idx' = 1
    /\ roster' = <<>>
    /\ currently_active_pokemon' = NoneObj
    /\ opponent_result' = NoneObj
    /\ current_player_team' = NoneObj
    /\ battle_state' = NoneObj
    /\ spc' = "opponent_icon"
    /\ UNCHANGED <<cur, pokemon_tooltip_mapping>>

\* lines 379-385: the aria-label of the next icon is read; an icon whose
\* label ends with "(fainted)" is skipped; a missing label makes endswith
\* raise, which line 440 catches
opponent_read_label ==
    /\ spc = "opponent_icon"
    /\ idx <= n_elements
    /\ \E pokemon_aria_label \in AriaLabels :
         IF pokemon_aria_label = NoLabel
         THEN /\ opponent_result' = [active |-> NoneObj, team |-> <<>>]
              /\ spc' = "opponent_returned"
              /\ LocalsReset
         ELSE IF pokemon_aria_label # EmptyLabel /\ pokemon_aria_label.ends_fainted
         THEN /\ idx' = idx + 1
              /\ UNCHANGED <<spc, cur, n_elements, roster, currently_active_pokemon,
                             pokemon_tooltip_mapping, opponent_result>>
         ELSE /\ cur' = pokemon_aria_label
              /\ spc' = "opponent_hover"
              /\ UNCHANGED <<idx, n_elements, roster, currently_active_pokemon,
                             pokemon_tooltip_mapping, opponent_result>>
    /\ UNCHANGED <<current_player_team, battle_state>>

\* lines 387-436: hover, read the tooltip, parse it, record the creature
\* unless `if pokemon_aria_label` fails or the tooltip says fainted (424-426)
opponent_parse_icon ==
    /\ spc = "opponent_hover"
    /\ \E tooltip \in Tooltips :
         \* of parse_pokemon_tooltip(tooltip, TRUE) only hp and fainted are read,
         \* which its HP block decides
         LET pokemon_data == hp_and_fainted(tooltip.paras)
             parsed_pokemon == Pokemon(cur.name, pokemon_data.hp, pokemon_data.fainted)
         IN  IF cur = EmptyLabel \/ pokemon_data.fainted
             THEN UNCHANGED <<roster, currently_active_pokemon>>
             ELSE /\ currently_active_pokemon' =
                        IF cur.active THEN parsed_pokemon ELSE currently_active_pokemon
                  /\ roster' = Append(roster, parsed_pokemon)
    /\ idx' = idx + 1
    /\ cur' = NoneObj
    /\ spc' = "opponent_icon"
    /\ UNCHANGED <<n_elements, pokemon_tooltip_mapping, opponent_result,
                   current_player_team, battle_state>>

\* line 438
opponent_return ==
    /\ spc = "opponent_icon"
    /\ idx > n_elements
    /\ opponent_result' = [active |-> currently_active_pokemon, team |-> roster]
    /\ spc' = "opponent_returned"
    /\ LocalsReset
    /\ UNCHANGED <<current_player_team, battle_state>>

\* lines 440-442: a wait that times out or a stale element, at any statement
opponent_except ==
    /\ spc \in {"opponent_icon", "opponent_hover"}
    /\ opponent_result' = [active |-> NoneObj, team |-> <<>>]
    /\ spc' = "opponent_returned"
    /\ LocalsReset
    /\ UNCHANGED <<current_player_team, battle_state>>

\* ---- get_player_team, called by get_controls (line 720)

\* lines 590-603
team_find_buttons ==
    /\ spc = "idle"
    /\ \E n \in 0..MaxTeam : n_elements' = n
    /\ idx' = 1
    /\ roster' = <<>>
    /\ currently_active_pokemon' = NoneObj
    /\ pokemon_tooltip_mapping' = EmptyDict
    /\ opponent_result' = NoneObj
    /\ current_player_team' = NoneObj
    /\ battle_state' = NoneObj
    /\ spc' = "team_button"
    /\ UNCHANGED cur

\* lines 606-625: the value and class of the next button are read; a disabled
\* button is skipped
team_read_button ==
    /\ spc = "team_button"
    /\ idx <= n_elements
    /\ \/ /\ idx' = idx + 1             \* "disabled" in button_classes
          /\ UNCHANGED <<spc, cur>>
       \/ \E pokemon_button_value \in ButtonValues :
            /\ cur' = [pokemon_initial_name |-> pokemon_button_value.name,
                       is_currently_active |-> pokemon_button_value.status = "active",
                       is_pokemon_fainted |-> pokemon_button_value.status = "fainted"]
            /\ spc' = "team_hover"
            /\ UNCHANGED idx
    /\ UNCHANGED <<n_elements, roster, currently_active_pokemon,
                   pokemon_tooltip_mapping, opponent_result, current_player_team,
                   battle_state>>

\* lines 627-685: hover, read the tooltip, parse it, record the creature; the
\* button's data-tooltip ("switchpokemon|i") is kept as its position i
team_parse_button ==
    /\ spc = "team_hover"
    /\ \E tooltip \in Tooltips :
         \* of parse_pokemon_tooltip(tooltip, FALSE) only hp and fainted are read,
         \* which its HP block decides
         LET pokemon_data == hp_and_fainted(tooltip.paras)
             pokemon_name == IF tooltip.h2 # NoH2 THEN tooltip.h2
                             ELSE cur.pokemon_initial_name
             team_pokemon == Pokemon(pokemon_name, pokemon_data.hp,
                                     pokemon_data.fainted \/ cur.is_pokemon_fainted)
         IN  /\ roster' = Append(roster, team_pokemon)
             /\ pokemon_tooltip_mapping' =
                    DictSet(pokemon_tooltip_mapping, pokemon_name, idx)
             /\ currently_active_pokemon' =
                    IF cur.is_currently_active THEN team_pokemon
                    ELSE currently_active_pokemon
    /\ idx' = idx + 1
    /\ cur' = NoneObj
    /\ spc' = "team_button"
    /\ UNCHANGED <<n_elements, opponent_result, current_player_team, battle_state>>

\* lines 687-694
team_return ==
    /\ spc = "team_button"
    /\ idx > n_elements
    /\ current_player_team' =
           Team(currently_active_pokemon, roster, pokemon_tooltip_mapping)
    /\ spc' = "controls_moves"
    /\ LocalsReset
    /\ UNCHANGED <<opponent_result, battle_state>>

\* lines 696-698
team_except ==
    /\ spc \in {"team_button", "team_hover"}
    /\ current_player_team' = NoneObj
    /\ spc' = "controls_moves"
    /\ LocalsReset
    /\ UNCHANGED <<opponent_result, battle_state>>


\* ---- get_controls

\* the most move buttons the controls hold
MaxMoveButtons == 2

MoveHandle(i) == [control |-> "move", n |-> i]
SwitchHandle(i) == [control |-> "switch", n |-> i]

\* lines 799-807 without the check of lines 801-802
switch_offered_fainted_too(team, i) ==
    ~ (team.active_pokemon # NoneObj
       /\ team.pokemon[i].name = team.active_pokemon.name)

\* lines 799-807: roster entry i is offered unless fainted or active
switch_offered(team, i) ==
    /\ ~ team.pokemon[i].fainted
    /\ ~ (team.active_pokemon # NoneObj
          /\ team.pokemon[i].name = team.active_pokemon.name)

\* lines 794-811: available_pokemon_switches, "Switch i" kept as i
available_pokemon_switches(team) ==
    IF team = NoneObj THEN EmptyDict
    ELSE [i \in {j \in 1..Len(team.pokemon) : switch_offered(team, j)}
            |-> team.pokemon[i].name]

\* lines 731-768: available_moves_mapping, "Move i" kept as i, for the set of
\* positions of the move buttons that are not disabled; a Move is kept as
\* its value, the button's data-tooltip
available_moves_mapping(enabled) == [i \in enabled |-> MoveHandle(i)]

\* lines 814-824
battle_state_of(team, enabled, tera_available, is_battle_start) ==
    [active_pokemon |-> IF team = NoneObj THEN NoneObj ELSE team.active_pokemon,
     team |-> team,
     moves_dict |-> available_moves_mapping(enabled),
     terastallize |-> [available |-> tera_available],
     available_switches |-> available_pokemon_switches(team),
     battle_start |-> is_battle_start]

\* lines 722-824, after get_player_team has returned
controls_return ==
    /\ spc = "controls_moves"
    /\ \E enabled \in SUBSET (1..MaxMoveButtons), tera_available \in BOOLEAN,
          is_battle_start \in BOOLEAN :
         battle_state' = battle_state_of(current_player_team, enabled,
                                         tera_available, is_battle_start)
    /\ spc' = "controls_returned"
    /\ UNCHANGED <<n_elements, idx, cur, roster, currently_active_pokemon,
                   pokemon_tooltip_mapping, opponent_result, current_player_team>>

\* lines 826-828
controls_except ==
    /\ spc = "controls_moves"
    /\ battle_state' = NoneObj
    /\ spc' = "controls_returned"
    /\ UNCHANGED <<n_elements, idx, cur, roster, currently_active_pokemon,
                   pokemon_tooltip_mapping, opponent_result, current_player_team>>

\* the caller goes on to its next scrape
scrape_again ==
    /\ spc \in {"opponent_returned", "controls_returned"}
    /\ spc' = "idle"
    /\ UNCHANGED <<n_elements, idx, cur, roster, currently_active_pokemon,
                   pokemon_tooltip_mapping, opponent_result, current_player_team,
                   battle_state>>

ScrapeNext ==
    \/ opponent_find_icons /\ UNCHANGED <<typeVars, battleVars, logVars, tipVars, histVars>>
    \/ opponent_read_label /\ UNCHANGED <<typeVars, battleVars, logVars, tipVars, histVars>>
    \/ opponent_parse_icon /\ UNCHANGED <<typeVars, battleVars, logVars, tipVars, histVars>>
    \/ opponent_return /\ UNCHANGED <<typeVars, battleVars, logVars, tipVars, histVars>>
    \/ opponent_except /\ UNCHANGED <<typeVars, battleVars, logVars, tipVars, histVars>>
    \/ team_find_buttons /\ UNCHANGED <<typeVars, battleVars, logVars, tipVars, histVars>>
    \/ team_read_button /\ UNCHANGED <<typeVars, battleVars, logVars, tipVars, histVars>>
    \/ team_parse_button /\ UNCHANGED <<typeVars, battleVars, logVars, tipVars, histVars>>
    \/ team_return /\ UNCHANGED <<typeVars, battleVars, logVars, tipVars, histVars>>
    \/ team_except /\ UNCHANGED <<typeVars, battleVars, logVars, tipVars, histVars>>
    \/ controls_return /\ UNCHANGED <<typeVars, battleVars, logVars, tipVars, histVars>>
    \/ controls_except /\ UNCHANGED <<typeVars, battleVars, logVars, tipVars, histVars>>
    \/ scrape_again /\ UNCHANGED <<typeVars, battleVars, logVars, tipVars, histVars>>

-----------------------------------------------------------------------------
(* src/main.py, src/ace_trainer.py: the decision cycle and the battle loops *)

\* the battles one run joins
MaxBattles == 2
\* the battles joined where the decision cycles of a battle are followed
MaxCycleBattles == 1
\* the most creatures of the player's roster in a battle
MaxRoster == 3

\* BattleMove.action: "Move 1".."Move 4", "Switch 1".."Switch 6", kept as the
\* word and the number
NUM_MOVE_ACTIONS == 4
NUM_SWITCH_ACTIONS == 6
Actions == [kind : {"Move"}, n : 1..NUM_MOVE_ACTIONS]
             \cup [kind : {"Switch"}, n : 1..NUM_SWITCH_ACTIONS]

\* BattleMove.reason is free text, kept as the sequence of its pieces
PlainReason == <<"it resists their attacks">>

Reasons == {PlainReason}

\* BattleMove: what the decision-maker may return
Decisions == [action : Actions, terastallize : BOOLEAN, reason : Reasons]

\* the ten literals of BattleMove.action, as the f-string prints them
MOVE_STR == <<"Move 1", "Move 2", "Move 3", "Move 4">>
SWITCH_STR == <<"Switch 1", "Switch 2", "Switch 3", "Switch 4", "Switch 5",
                "Switch 6">>

action_str(action) ==
    IF action.kind = "Move" THEN MOVE_STR[action.n] ELSE SWITCH_STR[action.n]

\* how an f-string prints a bool
bool_str(b) == IF b THEN "True" ELSE "False"

\* ace_trainer.py lines 174-178: reasoning_text, a text kept as the sequence
\* of its pieces: three labelled lines, and no newline after the last
reasoning_text(ai_response) ==
    <<"Action: ", action_str(ai_response.action), "\n",
      "Terastallize: ", bool_str(ai_response.terastallize), "\n",
      "Reason: ">> \o ai_response.reason

\* self.last_reasoning = ""
NoReasoning == [empty |-> TRUE]

ROSTER_NAMES == <<"Pikachu", "Gengar", "Snorlax", "Garchomp", "Dragonite",
                  "Toxapex">>

\* The teams get_player_team returns in a battle: up to MaxRoster creatures of
\* distinct names, each fainted or not, button i holding creature i.
BattleTeams ==
    {Team(NoneObj,
          [i \in 1..k |-> Pokemon(ROSTER_NAMES[i], IF f[i] THEN 0 ELSE 100, f[i])],
          [nm \in {ROSTER_NAMES[i] : i \in 1..k}
             |-> CHOOSE i \in 1..k : ROSTER_NAMES[i] = nm])
       : <<k, f>> \in UNION {{<<kk, g>> : g \in [1..kk -> BOOLEAN]}
                               : kk \in 0..MaxRoster}}

TERASTALLIZE == [control |-> "terastallize"]

\* the keys of moves_dict and available_switches offered this cycle
LegalActions(controls) ==
    {a \in Actions :
        \/ a.kind = "Move" /\ a.n \in DOMAIN controls.moves_dict
        \/ a.kind = "Switch" /\ a.n \in DOMAIN controls.available_switches}

\* terastallize() without the is_selected() test of line 567
terastallize_clicks_when_selected(checkbox) ==
    IF checkbox # "absent" THEN <<TERASTALLIZE>> ELSE <<>>

\* lines 551-578, terastallize(): the clicks it makes for a checkbox that is
\* "absent" (the wait times out, line 576), "unselected" or "selected"
terastallize_clicks(checkbox) ==
    IF checkbox = "unselected" THEN <<TERASTALLIZE>> ELSE <<>>

terastallize_checkbox(checkbox) ==
    IF checkbox = "unselected" THEN "selected" ELSE checkbox

\* execute_move with `.get(action, action)` style lookups: a key that is
\* missing raises nothing and the button of that number is clicked
execute_move_lookup_unchecked(battle_decision, controls, checkbox) ==
    LET action == battle_decision.action
    IN  [raised |-> "none",
         button |-> IF action.kind = "Switch" THEN SwitchHandle(action.n)
                    ELSE MoveHandle(action.n),
         clicks |-> IF action.kind = "Move" /\ battle_decision.terastallize
                    THEN terastallize_clicks(checkbox) ELSE <<>>,
         checkbox |-> IF action.kind = "Move" /\ battle_decision.terastallize
                      THEN terastallize_checkbox(checkbox) ELSE checkbox]

\* lines 842-854: the lookups of execute_move and its call of terastallize:
\* the exception raised (or "none"), the button to click, the clicks made
\* before it and the checkbox left behind
execute_move_lookup(battle_decision, controls, checkbox) ==
    LET action == battle_decision.action
        failed == [raised |-> "KeyError", button |-> NoneObj, clicks |-> <<>>,
                   checkbox |-> checkbox]
    IN  IF action.kind = "Switch"
        THEN IF action.n \notin DOMAIN controls.available_switches THEN failed
             ELSE LET pokemon_to_switch_to == controls.available_switches[action.n]
                  IN  IF pokemon_to_switch_to \notin DOMAIN controls.team.pokemon_dict
                      THEN failed
                      ELSE [raised |-> "none",
                            button |-> SwitchHandle(
                                controls.team.pokemon_dict[pokemon_to_switch_to]),
                            clicks |-> <<>>,
                            checkbox |-> checkbox]
        ELSE IF action.n \notin DOMAIN controls.moves_dict THEN failed
             ELSE [raised |-> "none",
                   button |-> controls.moves_dict[action.n],
                   clicks |-> IF battle_decision.terastallize
                              THEN terastallize_clicks(checkbox) ELSE <<>>,
                   checkbox |-> IF battle_decision.terastallize
                                THEN terastallize_checkbox(checkbox) ELSE checkbox]

BattleIdle ==
    /\ pc = "idle"
    /\ battle_over = FALSE
    /\ tera_checkbox = "absent"
    /\ current_battle_controls = NoneObj
    /\ ai_decision = NoneObj
    /\ error = "none"
    /\ invoked = <<>>
    /\ last_reasoning = NoReasoning
    /\ current_iteration_number = 0
    /\ reasoning_files = {}
    /\ battles_joined = 0
    /\ reasoning_battle = 0

\* ace_trainer.py lines 21-49: the files of the reasoning directory, counted
check_iteration_number(files) == Cardinality({r.file : r \in files})

\* ShowdownBot.__init__ and initial_setup are done: last_reasoning is "",
\* current_iteration_number is the count of the files of an empty directory
BattleInit ==
    /\ pc = "find_battle"
    /\ battle_over = FALSE
    /\ tera_checkbox = "absent"
    /\ current_battle_controls = NoneObj
    /\ ai_decision = NoneObj
    /\ error = "none"
    /\ invoked = <<>>
    /\ last_reasoning = NoReasoning
    /\ current_iteration_number = 0
    /\ reasoning_files = {}
    /\ battles_joined = 0
    /\ reasoning_battle = 0

\* start_battling lines 1340-1357: a battle is found and start_battle entered
find_battle ==
    /\ pc = "find_battle"
    /\ battles_joined < MaxBattles
    /\ battles_joined' = battles_joined + 1
    /\ battle_over' = FALSE
    /\ pc' = "lead_get_controls"
    /\ UNCHANGED <<tera_checkbox, current_battle_controls, ai_decision, error,
                   invoked, last_reasoning, current_iteration_number,
                   reasoning_files, reasoning_battle>>

\* lines 1341-1351 time out; lines 1387-1389 raise to main (1451-1457)
find_battle_timeout ==
    /\ pc = "find_battle"
    /\ error' = "TimeoutException"
    /\ pc' = "exited"
    /\ UNCHANGED <<battle_over, tera_checkbox, current_battle_controls,
                   ai_decision, invoked, last_reasoning,
                   current_iteration_number, reasoning_files,
                   battles_joined, reasoning_battle>>

\* line 916 (is_battle_start = True) and line 934: get_controls scrapes the
\* page as it is now; the clicks of the cycle before are history
get_controls ==
    /\ pc \in {"lead_get_controls", "get_controls"}
    /\ \/ \E team \in BattleTeams \cup {NoneObj},
             enabled \in SUBSET (1..MaxMoveButtons),
             checkbox \in {"absent", "unselected", "selected"} :
            /\ tera_checkbox' = checkbox
            /\ current_battle_controls' =
                   battle_state_of(team, enabled, checkbox # "absent",
                                   pc = "lead_get_controls")
       \/ /\ current_battle_controls' = NoneObj       \* lines 826-828
          /\ tera_checkbox' = "absent"
    /\ invoked' = <<>>
    /\ pc' = "make_move"
    /\ UNCHANGED <<battle_over, ai_decision, error, last_reasoning,
                   current_iteration_number, reasoning_files,
                   battles_joined, reasoning_battle>>

\* make_move with the except of lines 482-484 and 545-547 clearing
\* last_reasoning
make_move_failure_forgets ==
    /\ pc = "make_move"
    /\ IF current_battle_controls = NoneObj
       THEN \* battle_controls["battle_start"] of None, line 465
            /\ ai_decision' = NoneObj
            /\ error' = "TypeError"
            /\ pc' = "battle_except"
            /\ UNCHANGED <<last_reasoning, reasoning_files,
                   battles_joined, reasoning_battle>>
       ELSE /\ \/ \E ai_response \in Decisions :
                    /\ ai_decision' = ai_response
                    /\ last_reasoning' = reasoning_text(ai_response)
                    /\ reasoning_battle' = battles_joined
                    /\ \/ reasoning_files' = reasoning_files \cup
                              {[file |-> current_iteration_number,
                                battle |-> battles_joined]}
                       \/ UNCHANGED reasoning_files   \* lines 237-238
               \/ \* self.llm.invoke raises: lines 166-168, then 482-484 / 545-547
                  /\ ai_decision' = NoneObj
                  /\ last_reasoning' = NoReasoning
                  /\ UNCHANGED <<reasoning_files, battles_joined,
                                 reasoning_battle>>
            /\ pc' = "execute_move"
            /\ UNCHANGED error
    /\ UNCHANGED <<battle_over, tera_checkbox, current_battle_controls, invoked,
                   current_iteration_number, battles_joined>>

\* lines 917 and 935, make_move, with generate_battle_moves and
\* _save_reasoning_to_file of ace_trainer.py
make_move ==
    /\ pc = "make_move"
    /\ IF current_battle_controls = NoneObj
       THEN \* battle_controls["battle_start"] of None, line 465
            /\ ai_decision' = NoneObj
            /\ error' = "TypeError"
            /\ pc' = "battle_except"
            /\ UNCHANGED <<last_reasoning, reasoning_files,
                   battles_joined, reasoning_battle>>
       ELSE /\ \/ \E ai_response \in Decisions :
                    /\ ai_decision' = ai_response
                    /\ last_reasoning' = reasoning_text(ai_response)
                    /\ reasoning_battle' = battles_joined
                    /\ \/ reasoning_files' = reasoning_files \cup
                              {[file |-> current_iteration_number,
                                battle |-> battles_joined]}
                       \/ UNCHANGED reasoning_files   \* lines 237-238
               \/ \* self.llm.invoke raises: lines 166-168, then 482-484 / 545-547
                  /\ ai_decision' = NoneObj
                  /\ UNCHANGED <<last_reasoning, reasoning_files,
                   battles_joined, reasoning_battle>>
            /\ pc' = "execute_move"
            /\ UNCHANGED error
    /\ UNCHANGED <<battle_over, tera_checkbox, current_battle_controls, invoked,
                   current_iteration_number, battles_joined>>

\* lines 918-919 and 936-937: `if decision: self.execute_move(...)`
execute_move ==
    /\ pc = "execute_move"
    /\ IF ai_decision = NoneObj
       THEN /\ pc' = "sleep"
            /\ UNCHANGED <<tera_checkbox, error, invoked>>
       ELSE LET found == execute_move_lookup(ai_decision, current_battle_controls,
                                             tera_checkbox)
            IN  /\ tera_checkbox' = found.checkbox
                /\ \/ /\ found.raised # "none"
                      /\ invoked' = invoked \o found.clicks
                      /\ error' = found.raised
                      /\ pc' = "battle_except"
                   \/ \* lines 857-861: the button is found and clicked
                      /\ found.raised = "none"
                      /\ invoked' = (invoked \o found.clicks) \o <<found.button>>
                      /\ pc' = "sleep"
                      /\ UNCHANGED error
                   \/ \* lines 857-861: find_element or click raises
                      /\ found.raised = "none"
                      /\ invoked' = invoked \o found.clicks
                      /\ error' = "WebDriverException"
                      /\ pc' = "battle_except"
    /\ UNCHANGED <<battle_over, current_battle_controls, ai_decision,
                   last_reasoning, current_iteration_number, reasoning_files,
                   battles_joined, reasoning_battle>>

\* lines 940 and 922-931: the battle goes on; the locals of the last cycle are
\* dead
battle_goes_on ==
    /\ pc = "sleep"
    /\ pc' = "get_controls"
    /\ current_battle_controls' = NoneObj
    /\ ai_decision' = NoneObj
    /\ UNCHANGED <<battle_over, tera_checkbox, error, invoked, last_reasoning,
                   current_iteration_number, reasoning_files,
                   battles_joined, reasoning_battle>>

\* lines 940 and 922: is_battle_over() is true and start_battle returns
battle_is_over ==
    /\ pc = "sleep"
    /\ battle_over' = TRUE
    /\ pc' = "completion"
    /\ UNCHANGED <<tera_checkbox, current_battle_controls, ai_decision, error,
                   invoked, last_reasoning, current_iteration_number,
                   reasoning_files,
                   battles_joined, reasoning_battle>>

\* lines 1359-1364: the battle ended despite the error
battle_except_over ==
    /\ pc = "battle_except"
    /\ battle_over' = TRUE
    /\ error' = "none"
    /\ pc' = "completion"
    /\ UNCHANGED <<tera_checkbox, current_battle_controls, ai_decision, invoked,
                   last_reasoning, current_iteration_number, reasoning_files,
                   battles_joined, reasoning_battle>>

\* lines 1365-1367, 1387-1389 and main (1451-1457): the error is raised again,
\* leaves start_battling and main closes the driver
battle_except_raise ==
    /\ pc = "battle_except"
    /\ pc' = "exited"
    /\ UNCHANGED <<battle_over, tera_checkbox, current_battle_controls,
                   ai_decision, error, invoked, last_reasoning,
                   current_iteration_number, reasoning_files,
                   battles_joined, reasoning_battle>>

\* lines 1370-1382: back to the main menu, the counter moves on
battle_completed ==
    /\ pc = "completion"
    /\ battle_over
    /\ current_iteration_number' = current_iteration_number + 1
    /\ pc' = "find_battle"
    /\ current_battle_controls' = NoneObj
    /\ ai_decision' = NoneObj
    /\ invoked' = <<>>
    /\ UNCHANGED <<battle_over, tera_checkbox, error, last_reasoning,
                   reasoning_files,
                   battles_joined, reasoning_battle>>

\* lines 1384-1385: the main menu button cannot be clicked
battle_cleanup_error ==
    /\ pc = "completion"
    /\ battle_over
    /\ pc' = "find_battle"
    /\ current_battle_controls' = NoneObj
    /\ ai_decision' = NoneObj
    /\ invoked' = <<>>
    /\ UNCHANGED <<battle_over, tera_checkbox, error, last_reasoning,
                   current_iteration_number, reasoning_files,
                   battles_joined, reasoning_battle>>

\* main (1433-1457) has returned and the bot is started again: __init__ and
\* AceTrainer.__init__ (line 103) run anew over the files that are there
main_again ==
    /\ pc = "exited"
    /\ pc' = "find_battle"
    /\ current_iteration_number' = check_iteration_number(reasoning_files)
    /\ last_reasoning' = NoReasoning
    /\ error' = "none"
    /\ battle_over' = FALSE
    /\ tera_checkbox' = "absent"
    /\ current_battle_controls' = NoneObj
    /\ ai_decision' = NoneObj
    /\ invoked' = <<>>
    /\ reasoning_battle' = 0
    /\ UNCHANGED <<reasoning_files, battles_joined>>

BattleNext ==
    \/ find_battle /\ UNCHANGED <<typeVars, scrapeVars, logVars, tipVars, histVars>>
    \/ find_battle_timeout /\ UNCHANGED <<typeVars, scrapeVars, logVars, tipVars, histVars>>
    \/ get_controls /\ UNCHANGED <<typeVars, scrapeVars, logVars, tipVars, histVars>>
    \/ make_move /\ UNCHANGED <<typeVars, scrapeVars, logVars, tipVars, histVars>>
    \/ execute_move /\ UNCHANGED <<typeVars, scrapeVars, logVars, tipVars, histVars>>
    \/ battle_goes_on /\ UNCHANGED <<typeVars, scrapeVars, logVars, tipVars, histVars>>
    \/ battle_is_over /\ UNCHANGED <<typeVars, scrapeVars, logVars, tipVars, histVars>>
    \/ battle_except_over /\ UNCHANGED <<typeVars, scrapeVars, logVars, tipVars, histVars>>
    \/ battle_except_raise /\ UNCHANGED <<typeVars, scrapeVars, logVars, tipVars, histVars>>
    \/ battle_completed /\ UNCHANGED <<typeVars, scrapeVars, logVars, tipVars, histVars>>
    \/ battle_cleanup_error /\ UNCHANGED <<typeVars, scrapeVars, logVars, tipVars, histVars>>
    \/ main_again /\ UNCHANGED <<typeVars, scrapeVars, logVars, tipVars, histVars>>

\* start_battling lines 1340-1357, for the battles whose cycles are followed
find_cycle_battle ==
    /\ battles_joined < MaxCycleBattles
    /\ find_battle

CycleNext ==
    \/ find_cycle_battle /\ UNCHANGED <<typeVars, scrapeVars, logVars, tipVars, histVars>>
    \/ find_battle_timeout /\ UNCHANGED <<typeVars, scrapeVars, logVars, tipVars, histVars>>
    \/ get_controls /\ UNCHANGED <<typeVars, scrapeVars, logVars, tipVars, histVars>>
    \/ make_move /\ UNCHANGED <<typeVars, scrapeVars, logVars, tipVars, histVars>>
    \/ execute_move /\ UNCHANGED <<typeVars, scrapeVars, logVars, tipVars, histVars>>
    \/ battle_goes_on /\ UNCHANGED <<typeVars, scrapeVars, logVars, tipVars, histVars>>
    \/ battle_is_over /\ UNCHANGED <<typeVars, scrapeVars, logVars, tipVars, histVars>>
    \/ battle_except_over /\ UNCHANGED <<typeVars, scrapeVars, logVars, tipVars, histVars>>
    \/ battle_except_raise /\ UNCHANGED <<typeVars, scrapeVars, logVars, tipVars, histVars>>
    \/ battle_completed /\ UNCHANGED <<typeVars, scrapeVars, logVars, tipVars, histVars>>
    \/ battle_cleanup_error /\ UNCHANGED <<typeVars, scrapeVars, logVars, tipVars, histVars>>
    \/ main_again /\ UNCHANGED <<typeVars, scrapeVars, logVars, tipVars, histVars>>

-----------------------------------------------------------------------------
(* src/ace_trainer.py: the decision log of one battle *)

\* the most decisions appended to one reasoning file
MaxSaves == 2

\* a justification that goes on to quote an earlier reasoning, as make_move
\* hands it to the decision-maker (main.py lines 537-538)
QuotingReason ==
    PlainReason \o reasoning_text([action |-> [kind |-> "Move", n |-> 1],
                                   terastallize |-> FALSE,
                                   reason |-> PlainReason])

LogDecisions ==
    [action : {[kind |-> "Move", n |-> 1], [kind |-> "Switch", n |-> 2]},
     terastallize : BOOLEAN,
     reason : {PlainReason, QuotingReason}]

NotCalled == [called |-> FALSE]
Raised == [raised |-> TRUE]

\* lines 221-238 with mode "a": the write goes after what the file holds
append_to_file(text, reasoning_content) == text \o reasoning_content

\* the text of a file to which the decisions ds were appended in order
RECURSIVE file_of(_)
file_of(ds) ==
    IF ds = <<>> THEN <<>>
    ELSE append_to_file(file_of(SubSeq(ds, 1, Len(ds) - 1)),
                        reasoning_text(ds[Len(ds)]))

LogIdle ==
    /\ file_text = <<>>
    /\ saved = <<>>
    /\ generated = NotCalled

\* generate_battle_moves, lines 162-183: the decision is returned and
\* _save_reasoning_to_file appends its text
generate_and_save ==
    /\ Len(saved) < MaxSaves
    /\ \E ai_response \in LogDecisions :
         /\ file_text' = append_to_file(file_text, reasoning_text(ai_response))
         /\ saved' = Append(saved, ai_response)
         /\ generated' = [response |-> ai_response,
                          text |-> reasoning_text(ai_response)]

\* generate_battle_moves with the open or the write raising, lines 237-238:
\* the decision is returned all the same
generate_save_error ==
    /\ \E ai_response \in LogDecisions :
         generated' = [response |-> ai_response,
                       text |-> reasoning_text(ai_response),
                       file_error |-> TRUE]
    /\ UNCHANGED <<file_text, saved>>

\* generate_battle_moves, lines 166-168: self.llm.invoke raises
generate_llm_error ==
    /\ generated' = Raised
    /\ UNCHANGED <<file_text, saved>>

LogNext ==
    \/ generate_and_save /\ UNCHANGED <<typeVars, scrapeVars, battleVars, tipVars, histVars>>
    \/ generate_save_error /\ UNCHANGED <<typeVars, scrapeVars, battleVars, tipVars, histVars>>
    \/ generate_llm_error /\ UNCHANGED <<typeVars, scrapeVars, battleVars, tipVars, histVars>>

-----------------------------------------------------------------------------
(* src/main.py: parse_pokemon_tooltip on the fragments of a tooltip *)

\* The fragments parsed: for each section of a tooltip, in the order of the
\* document, one of a few forms of it or nothing.  A slot is a sequence of
\* no or one element.
TypesSlot == {<<>>, <<<<"Fire">>>>, <<<<"Fire", "Fighting">>>>}
TeraSlot == {<<>>, <<<<"Water">>>>}
HPSlot ==
    {<<>>} \cup {<<p>> : p \in [small : {"HP:"}, marker : BOOLEAN,
                               pct : {NoMatch, <<45>>}]}
           \cup {<<[small |-> "HP:", marker |-> FALSE, pct |-> <<150>>]>>}
StatusSlot == {<<>>} \cup {<<status_text>> : status_text \in StatusTexts}
AbilitySlot ==
    {<<>>,
     <<[small |-> "Ability:", after |-> <<" ", "Intimidate">>]>>,
     <<[small |-> "Ability:", after |-> <<" ", "Speed Boost">>]>>,
     <<[small |-> "Possible abilities:",
        after |-> <<" ", "Intimidate", ",", " ", "Defiant">>]>>,
     <<[small |-> "Possible abilities:",
        after |-> <<" ", "Intimidate", " ", ",", " ", ",", "Defiant", " ">>]>>}
ItemSlot ==
    {<<>>,
     <<[small |-> "Item:", after |-> <<" ", "Leftovers">>]>>,
     <<[small |-> "Item:", after |-> <<" ">>]>>}
SpeedSlot ==
    {<<>>,
     <<[small |-> "Spe", after |-> <<" ", "186", " ", "to", " ", "305">>]>>,
     <<[small |-> "Spe", after |-> <<>>]>>,
     <<[small |-> "Atk", after |-> <<" ", "251", " ", "/", " ", "Spe", " ", "394">>]>>}
MovesSlot ==
    {<<>>,
     <<[small |-> NoSmall,
        lines |-> << <<"*", " ", "Flare Blitz", " ", "(15/16)">>,
                     <<" ", "*", "Protect">> >>]>>,
     <<[small |-> NoSmall,
        lines |-> << <<"Last", " ", "moves">>,
                     <<"*", " ", "Protect", " ", "(revealed)">> >>]>>,
     \* two sections that list one move
     <<[small |-> NoSmall,
        lines |-> << <<"*", " ", "Protect", " ", "(15/16)">> >>],
       [small |-> NoSmall,
        lines |-> << <<"*", " ", "Protect", " ", "(revealed)">> >>]>>}

SectionChoices ==
    [types : TypesSlot, tera : TeraSlot, hp : HPSlot, status : StatusSlot,
     ability : AbilitySlot, item : ItemSlot, speed : SpeedSlot, moves : MovesSlot]

\* the HP paragraph, with the span.status in it if there is one
hp_paragraphs(c) ==
    IF c.hp = <<>> THEN <<>>
    ELSE IF c.status = <<>> THEN c.hp
    ELSE <<[small |-> c.hp[1].small, marker |-> c.hp[1].marker,
            pct |-> c.hp[1].pct, status |-> c.status[1]]>>

\* the fragment made of the sections chosen
Fragment(c) ==
    LET icons == c.types \o c.tera
        paras == hp_paragraphs(c) \o c.ability \o c.item \o c.speed \o c.moves
    IN  IF c.tera = <<>>
        THEN [typeicons |-> icons, paras |-> paras]
        ELSE [typeicons |-> icons, tera |-> Len(icons), paras |-> paras]

NoSections ==
    [types |-> <<>>, tera |-> <<>>, hp |-> <<>>, status |-> <<>>,
     ability |-> <<>>, item |-> <<>>, speed |-> <<>>, moves |-> <<>>]

TipIdle ==
    /\ sections = NoSections
    /\ tooltip_html_content = Fragment(NoSections)
    /\ is_opponent = TRUE
    /\ tooltip_result = NoneObj
    /\ tip_pc = "idle"

TipInit ==
    /\ sections \in SectionChoices
    /\ tooltip_html_content = Fragment(sections)
    /\ is_opponent \in BOOLEAN
    /\ tooltip_result = NoneObj
    /\ tip_pc = "call"

\* one call of parse_pokemon_tooltip
parse_tooltip ==
    /\ tip_pc = "call"
    /\ tooltip_result' = parse_pokemon_tooltip(tooltip_html_content, is_opponent)
    /\ tip_pc' = "parsed"
    /\ UNCHANGED <<sections, tooltip_html_content, is_opponent>>

TipNext ==
    \/ parse_tooltip /\ UNCHANGED <<typeVars, scrapeVars, battleVars, logVars, histVars>>

-----------------------------------------------------------------------------
(* src/main.py: get_battle_log *)

\* the most elements of one battle log
MaxLogElements == 4

\* An element of the log: its tag name, whether its classes hold
\* battle-history and spacer, and its text.
Element(name, history, spacer, text) ==
    [name |-> name, history |-> history, spacer |-> spacer, text |-> text]

LogElements ==
    {Element("h2", TRUE, FALSE, "Turn 1"),
     Element("h2", TRUE, FALSE, "Turn 2"),
     Element("h2", TRUE, FALSE, "Turn x"),
     Element("div", TRUE, FALSE, "Go! Pikachu!"),
     Element("div", TRUE, FALSE, "Gengar used Hex!"),
     Element("div", TRUE, FALSE, "  "),
     Element("div", TRUE, TRUE, ""),
     Element("div", FALSE, FALSE, "chat")}

\* line 1042: the header texts int() accepts after 'Turn ' is removed
TurnNumbers == [text \in {"Turn 1", "Turn 2"} |-> IF text = "Turn 1" THEN 1 ELSE 2]

\* The page numbers its turns as they are played: the headers that carry a
\* number carry it in rising order.
HeadersInOrder(log) ==
    \A i \in 1..Len(log) : \A j \in (i + 1)..Len(log) :
        (/\ log[i].name = "h2" /\ log[i].text \in DOMAIN TurnNumbers
         /\ log[j].name = "h2" /\ log[j].text \in DOMAIN TurnNumbers)
            => TurnNumbers[log[i].text] < TurnNumbers[log[j].text]

BattleLogs ==
    {log \in UNION {[1..k -> LogElements] : k \in 0..MaxLogElements} :
        HeadersInOrder(log)}

\* lines 1016-1017 and 1051-1052
IsTurnHeader(element) == element.name = "h2" /\ element.history

\* line 1010: find('div', class_='battle-history')
IsHistoryDiv(element) == element.name = "div" /\ element.history

\* lines 1021-1023 and 1056-1058
IsActionDiv(element) == IsHistoryDiv(element) /\ ~ element.spacer

\* get_text(strip=True), over the texts of LogElements
get_text_strip(element) == IF element.text = "  " THEN "" ELSE element.text

\* lines 1014-1029 and 1049-1064: the actions from an element on, up to the
\* next turn header
RECURSIVE actions_until_header(_)
actions_until_header(elements) ==
    IF elements = <<>> \/ IsTurnHeader(Head(elements)) THEN <<>>
    ELSE (IF IsActionDiv(Head(elements)) /\ get_text_strip(Head(elements)) # ""
          THEN <<get_text_strip(Head(elements))>> ELSE <<>>)
            \o actions_until_header(Tail(elements))

\* the turn of every entry but the numbered ones
BattleLogEntry_turn_one(turn, actions_in_order) ==
    [turn |-> IF turn = 0 THEN 1 ELSE turn, actions_in_order |-> actions_in_order]

\* BattleLogEntry(turn=..., actions_in_order=...)
BattleLogEntry(turn, actions_in_order) ==
    [turn |-> turn, actions_in_order |-> actions_in_order]

\* lines 1007-1037
turn_zero_entries(log) ==
    LET first == FirstIdx([k \in 1..Len(log) |-> IsHistoryDiv(log[k])])
        turn_zero_actions ==
            IF first = 0 THEN <<>>
            ELSE actions_until_header(SubSeq(log, first, Len(log)))
    IN  IF turn_zero_actions = <<>> THEN <<>>
        ELSE <<BattleLogEntry(0, turn_zero_actions)>>

\* line 1042 raises ValueError on some header
header_raises(log) ==
    \E i \in 1..Len(log) : IsTurnHeader(log[i]) /\ log[i].text \notin DOMAIN TurnNumbers

\* lines 1040-1071, for the headers from element k on
RECURSIVE numbered_entries(_, _)
numbered_entries(log, k) ==
    IF k > Len(log) THEN <<>>
    ELSE IF IsTurnHeader(log[k])
    THEN <<BattleLogEntry(TurnNumbers[log[k].text],
                          actions_until_header(SubSeq(log, k + 1, Len(log))))>>
           \o numbered_entries(log, k + 1)
    ELSE numbered_entries(log, k + 1)

\* the turn-0 entry appended after the numbered ones
battle_log_of_turn_zero_last(log) ==
    IF header_raises(log) THEN <<>>
    ELSE numbered_entries(log, 1) \o turn_zero_entries(log)

\* lines 1001-1077 once the container is found
battle_log_of(log) ==
    IF header_raises(log) THEN <<>>
    ELSE turn_zero_entries(log) \o numbered_entries(log, 1)

HistIdle ==
    /\ battle_log_html = <<>>
    /\ parsed_battle_log = NoneObj
    /\ log_pc = "idle"

HistInit ==
    /\ battle_log_html \in BattleLogs
    /\ parsed_battle_log = NoneObj
    /\ log_pc = "call"

get_battle_log ==
    /\ log_pc = "call"
    /\ parsed_battle_log' = battle_log_of(battle_log_html)
    /\ log_pc' = "returned"
    /\ UNCHANGED battle_log_html

\* lines 993-995 time out; lines 1075-1077
get_battle_log_no_container ==
    /\ log_pc = "call"
    /\ parsed_battle_log' = <<>>
    /\ log_pc' = "failed"
    /\ UNCHANGED battle_log_html

HistNext ==
    \/ get_battle_log
         /\ UNCHANGED <<typeVars, scrapeVars, battleVars, logVars, tipVars>>
    \/ get_battle_log_no_container
         /\ UNCHANGED <<typeVars, scrapeVars, battleVars, logVars, tipVars>>

-----------------------------------------------------------------------------
(* The specifications *)

TypeIdle ==
    /\ attacker_type = NotSpecified
    /\ defender_type1 = NotSpecified
    /\ defender_type2 = NotSpecified
    /\ effectiveness = 4
    /\ descriptor = None
    /\ returned_at = 0
    /\ tpc = "idle"

TypeNext ==
    \/ determine_effectiveness /\ UNCHANGED <<scrapeVars, battleVars, logVars, tipVars, histVars>>

\* only determine_effectiveness runs
TypeSpecInit == TypeInit /\ ScrapeIdle /\ BattleIdle /\ LogIdle /\ TipIdle /\ HistIdle

SpecType == TypeSpecInit /\ [][TypeNext]_vars

\* only the scrapers run
ScrapeSpecInit == TypeIdle /\ ScrapeIdle /\ BattleIdle /\ LogIdle /\ TipIdle /\ HistIdle

SpecScrape == ScrapeSpecInit /\ [][ScrapeNext]_vars

\* only start_battling runs
BattleSpecInit == TypeIdle /\ ScrapeIdle /\ BattleInit /\ LogIdle /\ TipIdle /\ HistIdle

SpecBattle == BattleSpecInit /\ [][BattleNext]_vars

\* only start_battling runs, the decision cycles of its battles followed
CycleSpecInit == BattleSpecInit

SpecCycle == CycleSpecInit /\ [][CycleNext]_vars

\* only generate_battle_moves runs, over the file of one battle
LogSpecInit == TypeIdle /\ ScrapeIdle /\ BattleIdle /\ LogIdle /\ TipIdle /\ HistIdle

SpecLog == LogSpecInit /\ [][LogNext]_vars

\* only parse_pokemon_tooltip runs
TipSpecInit == TypeIdle /\ ScrapeIdle /\ BattleIdle /\ LogIdle /\ TipInit /\ HistIdle

SpecTooltip == TipSpecInit /\ [][TipNext]_vars

\* only get_battle_log runs
HistSpecInit ==
    TypeIdle /\ ScrapeIdle /\ BattleIdle /\ LogIdle /\ TipIdle /\ HistInit

SpecHistory == HistSpecInit /\ [][HistNext]_vars

-----------------------------------------------------------------------------
(* Properties of the type-effectiveness calculator, checked under SpecType *)

SixDescriptors == {NO_EFFECT, QUARTER, HALF, NORMAL, DOUBLE, QUADRUPLE}

\* C1: for every attacking type and every ordered pair of defending types of
\* the full enumeration (TYPES and the sentinel), determine_effectiveness
\* returns one of the six descriptors.
C1_SixDescriptors ==
    tpc = "returned" => descriptor \in SixDescriptors

C1_Witness ==
    /\ tpc = "returned"
    /\ descriptor = QUARTER
    /\ defender_type1 # defender_type2

\* the types whose own row does not list them: the self-pair multiplier is 1.0
SelfNeutral == {"Normal", "Fighting", "Flying", "Ground", "Rock", "Bug",
                "Fairy", "Stellar", NotSpecified}
\* the types that resist themselves (0.5)
SelfResisted == {"Fire", "Water", "Grass", "Electric", "Ice", "Poison",
                 "Psychic", "Dark", "Steel"}
\* the types that are weak to themselves (2.0)
SelfWeak == {"Ghost", "Dragon"}

\* C2 as stated: for every type t, type_chart(t, t) = 1, so
\* determine_effectiveness(t, t, "Not Specified") is the normal-damage
\* descriptor.
C2_SelfPairIsOne ==
    (tpc = "returned" /\ defender_type1 = attacker_type
                      /\ defender_type2 = NotSpecified)
        => /\ type_chart(attacker_type, attacker_type) = MULT_1_0
           /\ descriptor = NORMAL

\* C2 amended: the self-pair entry is the chart's own entry: 1 exactly for the
\* types of SelfNeutral, 0.5 for those of SelfResisted and 2 for Ghost and
\* Dragon, and determine_effectiveness(t, t, "Not Specified") is the
\* descriptor of that entry (normal damage only for SelfNeutral).
C2_SelfPairFollowsChart ==
    (tpc = "returned" /\ defender_type1 = attacker_type
                      /\ defender_type2 = NotSpecified)
        => /\ attacker_type \in SelfNeutral
                => /\ type_chart(attacker_type, attacker_type) = MULT_1_0
                   /\ descriptor = NORMAL
           /\ attacker_type \in SelfResisted
                => /\ type_chart(attacker_type, attacker_type) = MULT_0_5
                   /\ descriptor = HALF
           /\ attacker_type \in SelfWeak
                => /\ type_chart(attacker_type, attacker_type) = MULT_2_0
                   /\ descriptor = DOUBLE
           /\ attacker_type \in SelfNeutral \cup SelfResisted \cup SelfWeak

C2_Witness ==
    /\ tpc = "returned"
    /\ attacker_type = "Fire"
    /\ defender_type1 = "Fire"
    /\ defender_type2 = NotSpecified
    /\ descriptor = HALF

\* the descriptor of one multiplier (in halves)
SingleDescriptor(m) ==
    CASE m = MULT_0_0 -> NO_EFFECT
      [] m = MULT_0_5 -> HALF
      [] m = MULT_1_0 -> NORMAL
      [] m = MULT_2_0 -> DOUBLE
      [] OTHER -> "no descriptor"

\* C3: determine_effectiveness(t, X, "Not Specified") is the descriptor of the
\* single multiplier type_chart(t, X), and the sentinel contributes
\* multiplier 1 both as a defending and as an attacking type.
C3_SentinelIsNeutral ==
    /\ type_chart(attacker_type, NotSpecified) = MULT_1_0
    /\ type_chart(NotSpecified, defender_type1) = MULT_1_0
    /\ (tpc = "returned" /\ defender_type2 = NotSpecified)
         => descriptor = SingleDescriptor(type_chart(attacker_type, defender_type1))

C3_Witness ==
    /\ tpc = "returned"
    /\ attacker_type = "Ground"
    /\ defender_type1 = "Flying"
    /\ defender_type2 = NotSpecified
    /\ descriptor = NO_EFFECT

\* the band of a product: 0 -> no effect, 0.25 -> quarter, 0.5 -> half,
\* 1 -> normal, 2 -> double, 4 -> quadruple (the product in quarters)
Band(q) ==
    CASE q = 0  -> NO_EFFECT
      [] q = 1  -> QUARTER
      [] q = 2  -> HALF
      [] q = 4  -> NORMAL
      [] q = 8  -> DOUBLE
      [] q = 16 -> QUADRUPLE
      [] OTHER  -> "no band"

\* C4: the descriptor is the band of type_chart(t, d1) x type_chart(t, d2);
\* Water against Fire/Rock is quadruple damage and Electric against
\* Ground/"Not Specified" is no effect.
C4_BandOfProduct ==
    tpc = "returned" =>
        /\ descriptor = Band(type_chart(attacker_type, defender_type1)
                             * type_chart(attacker_type, defender_type2))
        /\ (attacker_type = "Water" /\ defender_type1 = "Fire"
                                    /\ defender_type2 = "Rock")
             => descriptor = QUADRUPLE
        /\ (attacker_type = "Electric" /\ defender_type1 = "Ground"
                                       /\ defender_type2 = NotSpecified)
             => descriptor = NO_EFFECT

C4_Witness ==
    /\ tpc = "returned"
    /\ attacker_type = "Water"
    /\ defender_type1 = "Fire"
    /\ defender_type2 = "Rock"
    /\ effectiveness = 16

\* C5: type_chart is total with values in {0, 0.5, 1, 2}, so the product of
\* every triple is one of the six canonical values and the trailing fallback
\* return of determine_effectiveness is never reached.
C5_FallbackUnreached ==
    /\ type_chart(attacker_type, defender_type1)
         \in {MULT_0_0, MULT_0_5, MULT_1_0, MULT_2_0}
    /\ type_chart(attacker_type, defender_type2)
         \in {MULT_0_0, MULT_0_5, MULT_1_0, MULT_2_0}
    /\ tpc = "returned" =>
         /\ effectiveness \in {0, 1, 2, 4, 8, 16}
         /\ returned_at # FALLBACK_LINE

C5_Witness ==
    /\ tpc = "returned"
    /\ attacker_type = "Grass"
    /\ defender_type1 = "Fire"
    /\ defender_type2 = "Flying"
    /\ returned_at = 31

-----------------------------------------------------------------------------
(* Properties of the scrapers, checked under SpecScrape *)

\* execute_move has acted on a decision of the decision-maker
Executed ==
    /\ pc \in {"sleep", "battle_except"}
    /\ ai_decision # NoneObj
    /\ current_battle_controls # NoneObj

\* the decision executed names an action that this cycle did not offer
IllegalExecuted ==
    /\ Executed
    /\ ai_decision.action \notin LegalActions(current_battle_controls)

\* C6 as stated: when the decision's action is not in the legal set of this
\* cycle, the decision is rejected with an IllegalDecision error and no move
\* or switch control is invoked.
C6_RejectedWithIllegalDecision ==
    IllegalExecuted =>
        /\ pc = "battle_except"
        /\ error = "IllegalDecision"
        /\ invoked = <<>>

\* C6, amended: when the decision's action is not in the legal set of this
\* cycle, execute_move raises the KeyError of its dictionary lookup and no
\* control (move, switch or the terastallize toggle) is invoked.
C6_RejectedWithKeyError ==
    IllegalExecuted =>
        /\ pc = "battle_except"
        /\ error = "KeyError"
        /\ invoked = <<>>

\* the example of the claim: {Move 1, Move 2, Switch 3} is legal, Switch 5 is
\* decided and rejected
C6_Witness ==
    /\ pc = "battle_except"
    /\ ai_decision # NoneObj
    /\ current_battle_controls # NoneObj
    /\ LegalActions(current_battle_controls) =
           {[kind |-> "Move", n |-> 1], [kind |-> "Move", n |-> 2],
            [kind |-> "Switch", n |-> 3]}
    /\ ai_decision.action = [kind |-> "Switch", n |-> 5]
    /\ error = "KeyError"
    /\ invoked = <<>>

\* C7: a decision rejected as illegal never terminates the battle in
\* progress: with the rejection in flight the bot is never out of
\* start_battling.
C7_RejectionKeepsBattleRunning ==
    (error = "KeyError") => pc # "exited"

\* C8: when the decision has terastallize = true and get_controls reported
\* the terastallization as not available, the decision is rejected: neither
\* the toggle nor the move control of the decision is invoked.
C8_UnavailableTeraRejected ==
    (/\ Executed
     /\ ai_decision.action.kind = "Move"
     /\ ai_decision.terastallize
     /\ ~ current_battle_controls.terastallize.available)
        => invoked = <<>>

\* C9: in every result of get_opponent_pokemon and get_player_team, the
\* creature reported as active (if any) has fainted = false, whatever the icon
\* label / button status and the tooltip say.
C9_ActiveNeverFainted ==
    /\ (opponent_result # NoneObj /\ opponent_result.active # NoneObj)
         => ~ opponent_result.active.fainted
    /\ (current_player_team # NoneObj
          /\ current_player_team.active_pokemon # NoneObj)
         => ~ current_player_team.active_pokemon.fainted

\* the half of C9 that is about get_opponent_pokemon
OpponentActiveNeverFainted ==
    (opponent_result # NoneObj /\ opponent_result.active # NoneObj)
        => ~ opponent_result.active.fainted

\* C10: get_controls never offers a fainted switch target: for every key
\* "Switch i" of available_switches, roster entry i is the creature named and
\* has fainted = false.
C10_NoFaintedSwitchTarget ==
    (battle_state # NoneObj /\ battle_state.team # NoneObj) =>
        \A i \in DOMAIN battle_state.available_switches :
            /\ i \in 1..Len(battle_state.team.pokemon)
            /\ battle_state.team.pokemon[i].name = battle_state.available_switches[i]
            /\ ~ battle_state.team.pokemon[i].fainted

C10_Witness ==
    /\ spc = "controls_returned"
    /\ battle_state # NoneObj
    /\ battle_state.team # NoneObj
    /\ Len(battle_state.team.pokemon) = 2
    /\ battle_state.team.pokemon[1].fainted
    /\ DOMAIN battle_state.available_switches = {2}

\* C11: each battle has its own decision-log file: no reasoning file holds
\* decisions of two different battles.
C11_OneFilePerBattle ==
    \A r1 \in reasoning_files : \A r2 \in reasoning_files :
        r1.file = r2.file => r1.battle = r2.battle

\* C12: within one run current_iteration_number is incremented exactly once
\* for every battle that completes (the step from the completion handling
\* back to the search for a battle), and changes at no other time.
C12_IncrementedPerCompletedBattle ==
    [][/\ (pc = "completion" /\ pc' = "find_battle")
            => current_iteration_number' = current_iteration_number + 1
       /\ (pc \notin {"completion", "exited"})
            => current_iteration_number' = current_iteration_number]_vars

IsPrefix(s, t) == Len(s) <= Len(t) /\ SubSeq(t, 1, Len(s)) = s

SeqsOfDecisions == UNION {[1..k -> LogDecisions] : k \in 0..MaxSaves}

\* C13: the text persisted can be read back to exactly the decisions that
\* were appended: no other sequence of decisions leaves the same file.
C13_RoundTrip ==
    \A ds \in SeqsOfDecisions : file_of(ds) = file_text => ds = saved

\* C14: the records of a file are newline-separated and earlier content is
\* never rewritten: every save leaves the previous content as a prefix, and
\* the record it appends starts at the beginning of a line.
C14_NewlineSeparatedAppendOnly ==
    [][file_text' # file_text =>
          /\ IsPrefix(file_text, file_text')
          /\ file_text = <<>> \/ file_text[Len(file_text)] = "\n"]_vars

Parsed == tip_pc = "parsed"

\* C15: when the HP paragraph holds the "(fainted)" marker the parser
\* returns fainted = true and hp = 0 whatever percentage is in it; without
\* the marker fainted = false and hp is the percentage matched, or 100 when
\* none matches.
C15_FaintedMarkerWins ==
    (Parsed /\ sections.hp # <<>>) =>
        IF sections.hp[1].marker
        THEN tooltip_result.fainted /\ tooltip_result.hp = 0
        ELSE /\ ~ tooltip_result.fainted
             /\ tooltip_result.hp = IF sections.hp[1].pct = NoMatch THEN 100
                                    ELSE sections.hp[1].pct[1]

C15_Witness ==
    /\ Parsed
    /\ sections.hp # <<>>
    /\ sections.hp[1].marker
    /\ sections.hp[1].pct = <<45>>
    /\ tooltip_result.fainted
    /\ tooltip_result.hp = 0

\* C16: the status is "none" when the fragment has no status marker and when
\* the code of the marker is none of BRN, PSN, TOX, PAR, SLP, FRZ; TOX and
\* PSN both give "Poison".
C16_StatusNoneUnlessKnown ==
    Parsed =>
        /\ (sections.hp = <<>> \/ sections.status = <<>>)
              => tooltip_result.status = "none"
        /\ (sections.hp # <<>> /\ sections.status \in {<<"FNT">>, <<"">>})
              => tooltip_result.status = "none"
        /\ (sections.hp # <<>> /\ sections.status \in {<<"TOX">>, <<"PSN">>})
              => tooltip_result.status = "Poison"

C16_Witness ==
    /\ Parsed
    /\ sections.hp # <<>>
    /\ sections.status = <<"TOX">>
    /\ tooltip_result.status = "Poison"

\* C17: an ability paragraph with the label "Ability:" and a name N gives
\* ability = [N], the label removed.
C17_SingularLabelRemoved ==
    (Parsed /\ sections.ability # <<>> /\ sections.ability[1].small = "Ability:")
        => tooltip_result.ability = <<strip(sections.ability[1].after)>>

\* C18: an ability paragraph with the label "Possible abilities:" and a
\* comma-separated list gives the names in order, trimmed, the label removed
\* and the empty fragments dropped.
C18_PossibleAbilitiesSplit ==
    (/\ Parsed
     /\ sections.ability # <<>>
     /\ sections.ability[1].small = "Possible abilities:")
        => tooltip_result.ability = << <<"Intimidate">>, <<"Defiant">> >>

C18_Witness ==
    /\ Parsed
    /\ sections.ability # <<>>
    /\ sections.ability[1].small = "Possible abilities:"
    /\ Len(sections.ability[1].after) = 8
    /\ tooltip_result.ability = << <<"Intimidate">>, <<"Defiant">> >>

SectionNames ==
    {"types", "tera", "hp", "status", "ability", "item", "speed", "moves"}

FieldNames ==
    {"type1", "type2", "tera_type", "hp", "fainted", "status", "ability",
     "speed_min", "speed_max", "moves", "item"}

\* the fields a section is the source of
FieldsOf(section) ==
    CASE section = "types" -> {"type1", "type2"}
      [] section = "tera" -> {"tera_type"}
      [] section = "hp" -> {"hp", "fainted", "status"}
      [] section = "status" -> {"status"}
      [] section = "ability" -> {"ability"}
      [] section = "item" -> {"item"}
      [] section = "speed" -> {"speed_min", "speed_max"}
      [] section = "moves" -> {"moves"}

Defaults(opponent) ==
    [type1 |-> NotSpecified, type2 |-> NotSpecified, tera_type |-> NotSpecified,
     hp |-> 100, fainted |-> FALSE, status |-> "none", ability |-> <<>>,
     speed_min |-> 0, speed_max |-> 0, moves |-> <<>>,
     item |-> IF opponent THEN <<"Unknown">> ELSE <<"No Item">>]

\* C19: with every section absent the parser returns the defaults, and
\* removing one section changes only the fields of that section.
C19_SectionsIndependent ==
    Parsed =>
        /\ sections = NoSections => tooltip_result = Defaults(is_opponent)
        /\ \A section \in SectionNames :
             LET without == [sections EXCEPT ![section] = <<>>]
                 result == parse_pokemon_tooltip(Fragment(without), is_opponent)
             IN  \A field \in FieldNames \ FieldsOf(section) :
                     result[field] = tooltip_result[field]

NoTurnHeader ==
    \A i \in 1..Len(battle_log_html) : ~ IsTurnHeader(battle_log_html[i])

\* C20: on a log with no turn header get_battle_log returns the empty
\* sequence or exactly one entry, of turn 0; never an entry of a numbered
\* turn.
C20_NoHeaderNoNumberedTurn ==
    (log_pc \in {"returned", "failed"} /\ NoTurnHeader) =>
        \/ parsed_battle_log = <<>>
        \/ Len(parsed_battle_log) = 1 /\ parsed_battle_log[1].turn = 0

C20_Witness ==
    /\ log_pc = "returned"
    /\ NoTurnHeader
    /\ Len(parsed_battle_log) = 1
    /\ parsed_battle_log[1].turn = 0
    /\ Len(parsed_battle_log[1].actions_in_order) = 2

FirstHeader ==
    IF NoTurnHeader THEN Len(battle_log_html) + 1
    ELSE CHOOSE i \in 1..Len(battle_log_html) :
           /\ IsTurnHeader(battle_log_html[i])
           /\ \A j \in 1..(i - 1) : ~ IsTurnHeader(battle_log_html[j])

\* an element whose text is retained as an action
Retained(element) ==
    /\ element.name = "div" /\ element.history /\ ~ element.spacer
    /\ element.text # "  "

\* the retained elements among the elements from..to of the log
RetainedIn(from, to) ==
    {k \in from..to : Retained(battle_log_html[k])}

\* the number of actions of all entries of a returned log
RECURSIVE ActionCount(_)
ActionCount(entries) ==
    IF entries = <<>> THEN 0
    ELSE Len(Head(entries).actions_in_order) + ActionCount(Tail(entries))

HeadersAllNumbered ==
    \A i \in 1..Len(battle_log_html) :
        IsTurnHeader(battle_log_html[i]) =>
            battle_log_html[i].text \in DOMAIN TurnNumbers

\* C22: the turn-0 entry holds exactly the retained actions before the first
\* turn header (none of those after a header), and every retained action is
\* in exactly one entry, also when the log begins with a turn header.
C22_TurnZeroBeforeFirstHeader ==
    (log_pc = "returned" /\ HeadersAllNumbered) =>
        /\ \A i \in 1..Len(parsed_battle_log) :
               parsed_battle_log[i].turn = 0 =>
                   Len(parsed_battle_log[i].actions_in_order)
                       = Cardinality(RetainedIn(1, FirstHeader - 1))
        /\ ActionCount(parsed_battle_log)
               = Cardinality(RetainedIn(1, Len(battle_log_html)))

\* C23: a turn header whose text is no integer does not keep the entries
\* of the well-formed parts of the log from being returned: the actions
\* before the first header come back as turn 0, and every numbered header
\* has its entry.
C23_WellFormedPartsReturned ==
    (log_pc = "returned") =>
        /\ RetainedIn(1, FirstHeader - 1) # {} =>
               /\ parsed_battle_log # <<>>
               /\ parsed_battle_log[1].turn = 0
        /\ \A i \in 1..Len(battle_log_html) :
               (/\ IsTurnHeader(battle_log_html[i])
                /\ battle_log_html[i].text \in DOMAIN TurnNumbers)
                   => \E e \in 1..Len(parsed_battle_log) :
                        parsed_battle_log[e].turn
                            = TurnNumbers[battle_log_html[i].text]

\* paragraphs that may come later in a tooltip
LaterParagraphs ==
    {[small |-> "HP:", marker |-> TRUE, pct |-> NoMatch],
     [small |-> "HP:", marker |-> FALSE, pct |-> <<45>>, status |-> "BRN"],
     [small |-> "Ability:", after |-> <<" ", "Speed Boost">>],
     [small |-> "Possible abilities:", after |-> <<" ", "Intimidate", ",", " ", "Defiant">>],
     [small |-> "Item:", after |-> <<" ", "Leftovers">>],
     [small |-> "Spe", after |-> <<" ", "186", " ", "to", " ", "305">>],
     [small |-> "Atk", after |-> <<" ", "251", " ", "/", " ", "Spe", " ", "394">>]}

LabelledFields == {"hp", "ability", "speed", "item"}

\* the paragraph bears the label the field is looked up by
BearsLabel(field, q, opponent) ==
    CASE field = "hp" -> IsHPParagraph(q)
      [] field = "ability" -> IsAbilityParagraph(q)
      [] field = "speed" -> IF opponent THEN SmallContainsSpe(q) ELSE TextContainsSpe(q)
      [] field = "item" -> IsItemParagraph(q)

\* the values parsed for a field from the paragraphs
ValueOf(field, paras, opponent) ==
    CASE field = "hp" -> <<hp_and_fainted(paras), status_condition(paras)>>
      [] field = "ability" -> <<pokemon_abilities(paras)>>
      [] field = "speed" -> speed_stats(paras, opponent)
      [] field = "item" -> <<pokemon_item(paras, opponent)>>

\* the values of a field in a parsed result
ResultOf(field, result) ==
    CASE field = "hp" -> <<[hp |-> result.hp, fainted |-> result.fainted], result.status>>
      [] field = "ability" -> <<result.ability>>
      [] field = "speed" -> <<result.speed_min, result.speed_max>>
      [] field = "item" -> <<result.item>>

\* the first paragraph that bears the label of the field, or 0
FirstBearing(field, paras, opponent) ==
    IF \E i \in 1..Len(paras) : BearsLabel(field, paras[i], opponent)
    THEN CHOOSE i \in 1..Len(paras) :
           /\ BearsLabel(field, paras[i], opponent)
           /\ \A j \in 1..(i - 1) : ~ BearsLabel(field, paras[j], opponent)
    ELSE 0

\* paras with q put in after the k-th paragraph
InsertedAfter(paras, k, q) ==
    SubSeq(paras, 1, k) \o <<q>> \o SubSeq(paras, k + 1, Len(paras))

\* paras with the k-th paragraph changed to q
ChangedAt(paras, k, q) ==
    [paras EXCEPT ![k] = q]

\* C24: for the HP/status, ability, speed and item fields only the first
\* paragraph bearing the label of the field is used: a paragraph with the
\* same label added later, or a later one changed into it, leaves the
\* parsed value as it is, also when the first one holds no value.  The
\* parsed value is the one the paragraphs give; the type icons are no
\* paragraphs, and the later paragraphs are tried on the fragments without
\* icons.
C24_FirstLabelledParagraphOnly ==
    Parsed =>
        \A field \in LabelledFields :
            LET paras == tooltip_html_content.paras
                first == FirstBearing(field, paras, is_opponent)
                value == ValueOf(field, paras, is_opponent)
            IN  /\ ResultOf(field, tooltip_result) = value
                /\ (first # 0 /\ tooltip_html_content.typeicons = <<>>) =>
                     \A q \in LaterParagraphs :
                       BearsLabel(field, q, is_opponent) =>
                         /\ \A k \in first..Len(paras) :
                              ValueOf(field, InsertedAfter(paras, k, q), is_opponent)
                                  = value
                         /\ \A k \in (first + 1)..Len(paras) :
                              ValueOf(field, ChangedAt(paras, k, q), is_opponent)
                                  = value

\* parsed: an item paragraph and a speed paragraph without a value, and
\* other paragraphs after them
C24_Witness ==
    /\ Parsed
    /\ sections.hp # <<>> /\ sections.ability # <<>>
    /\ sections.item = <<[small |-> "Item:", after |-> <<" ">>]>>
    /\ sections.speed = <<[small |-> "Spe", after |-> <<>>]>>
    /\ sections.moves # <<>>
    /\ tooltip_html_content.typeicons = <<>>
    /\ tooltip_result.item = item_default(is_opponent)
    /\ tooltip_result.speed_min = 0

\* C25: the moves list parse_pokemon_tooltip returns has unique entries,
\* whatever bullet-marked lines the sections of the tooltip hold.
C25_MovesUnique ==
    Parsed =>
        \A i \in 1..Len(tooltip_result.moves) :
          \A j \in 1..Len(tooltip_result.moves) :
            tooltip_result.moves[i] = tooltip_result.moves[j] => i = j

\* C26: the hp parse_pokemon_tooltip returns is within [0, 100], for any
\* numeric percentage text of the HP paragraph.
C26_HPWithinRange ==
    Parsed => (0 <= tooltip_result.hp /\ tooltip_result.hp <= 100)

\* C27: every record put in the player's Team or the opponent's roster with
\* fainted = true has hp = 0, also when the fainted status comes from the
\* value of the switch button.
C27_FaintedHasNoHP ==
    /\ opponent_result # NoneObj =>
         \A i \in 1..Len(opponent_result.team) :
             opponent_result.team[i].fainted => opponent_result.team[i].hp = 0
    /\ current_player_team # NoneObj =>
         \A i \in 1..Len(current_player_team.pokemon) :
             current_player_team.pokemon[i].fainted
                 => current_player_team.pokemon[i].hp = 0

\* C28: the last_reasoning a mid-battle decision request includes stems
\* from a decision made earlier in the same battle, never from one of a
\* battle before, over any sequence of battles and decision-maker failures.
\* (make_move composes the request of lines 489-538 in the state it is
\* entered in; the request of the lead, lines 465-472, includes none.)
C28_ReasoningOfSameBattle ==
    (/\ pc = "make_move"
     /\ current_battle_controls # NoneObj
     /\ ~ current_battle_controls.battle_start
     /\ last_reasoning # NoReasoning)
        => reasoning_battle = battles_joined

\* the decision-maker call of the cycle has failed
CallFailed ==
    /\ pc \in {"execute_move", "sleep"}
    /\ current_battle_controls # NoneObj
    /\ ai_decision = NoneObj

\* last_reasoning has kept its value (it is the empty text or a text)
KeptReasoning ==
    IF last_reasoning = NoReasoning THEN last_reasoning' = NoReasoning
    ELSE last_reasoning' # NoReasoning /\ last_reasoning' = last_reasoning

\* C29: when the decision-maker call fails in make_move no decision is
\* returned and the cycle leaves everything as it was: no move, switch or
\* terastallize control is invoked, nothing is appended to the decision log
\* and last_reasoning keeps its value.
C29_FailedCallChangesNothing ==
    [][/\ (pc = "make_move" /\ pc' = "execute_move" /\ ai_decision' = NoneObj)
            => /\ KeptReasoning
               /\ reasoning_files' = reasoning_files
               /\ invoked' = <<>>
               /\ tera_checkbox' = tera_checkbox
       /\ (pc = "execute_move" /\ ai_decision = NoneObj)
            => /\ pc' = "sleep"
               /\ KeptReasoning
               /\ reasoning_files' = reasoning_files
               /\ invoked' = <<>>
               /\ tera_checkbox' = tera_checkbox]_vars

\* a call failed after a decision of the same battle, and the cycle is over
C29_Witness ==
    /\ CallFailed
    /\ pc = "sleep"
    /\ invoked = <<>>
    /\ last_reasoning # NoReasoning
    /\ reasoning_battle = battles_joined
    /\ reasoning_files # {}

\* the clicks of the cycle that are on the terastallize toggle, and the others
ToggleClicks(clicks) == SelectSeq(clicks, LAMBDA c : c = TERASTALLIZE)
ButtonClicks(clicks) == SelectSeq(clicks, LAMBDA c : c # TERASTALLIZE)

\* C30: execute_move clicks the terastallize toggle only for a Move decision
\* with terastallize = true (never for a Switch), never when the toggle is
\* already selected, and a decision that is executed clicks exactly one move
\* or switch button.
C30_ToggleOnlyForTeraMove ==
    [][(pc = "execute_move" /\ ai_decision # NoneObj) =>
          /\ ToggleClicks(invoked') # <<>> =>
                /\ ai_decision.action.kind = "Move"
                /\ ai_decision.terastallize
                /\ tera_checkbox # "selected"
                /\ Len(ToggleClicks(invoked')) = 1
          /\ ai_decision.action.kind = "Switch" => ToggleClicks(invoked') = <<>>
          /\ pc' = "sleep" => Len(ButtonClicks(invoked')) = 1
          /\ Len(ButtonClicks(invoked')) <= 1]_vars

\* executed: a Switch with the flag set and the toggle there to click
C30_Witness ==
    /\ pc = "sleep"
    /\ ai_decision # NoneObj
    /\ ai_decision.action.kind = "Switch"
    /\ ai_decision.terastallize
    /\ tera_checkbox = "unselected"
    /\ Len(invoked) = 1

====
